---- MODULE Spec2Model ----
(***************************************************************************)
(* A model of the kashibotto backend services:                             *)
(*   - ProcessorService.connectSmallTsuSegments (small-tsu merge)          *)
(*   - SegmentationService.segmentLyrics / ProcessorService.processLyrics  *)
(*   - LyricsService.fetchLyrics                                           *)
(*   - DictionaryService.lookupWord / lookupBatch                          *)
(* Strings are sequences of UTF-16 code units (naturals), so that the      *)
(* character tests of the source are computed, not assumed.                *)
(***************************************************************************)
EXTENDS Integers, Sequences, FiniteSets, TLC

VARIABLES
    \* ---- small-tsu merge (processor.ts) ----
    segments,        \* the argument of connectSmallTsuSegments
    connected,       \* its return value
    mpc,             \* "input" before the call, "done" after it
    \* ---- segmentation and processing (segmentation.ts, processor.ts) ----
    lyrics,          \* the argument of processLyrics / segmentLyrics
    spc,             \* position of the call
    lineNo,          \* loop index i of the per-line loops
    segmentedLines,  \* SegmentationService.segmentLyrics: segmentedLines
    processedLines,  \* ProcessorService.processLyrics: processedLines
    analyzerLog,     \* per line: what the morphological analyzer did
    outcome,         \* "none", "ok" or the code of the ApiError thrown
    errorMessage,    \* the message of the ApiError thrown, or the empty string
    \* ---- lyrics retrieval (lyrics.ts) ----
    production,      \* process.env.NODE_ENV === 'production'
    geniusClient,    \* LyricsService.geniusClient
    fetches,         \* the fetchLyrics calls, by call id
    \* ---- dictionary (dictionary.ts) ----
    timeSinceLastRequest, \* Date.now() - lastRequestTime, told apart below minRequestInterval
    cache,           \* DictionaryService.cache.entries
    stored,          \* the snapshot held by the storage backend
    cacheLoaded,     \* whether the constructor's loadCache() has resumed
    calls,           \* the lookupWord / lookupBatch calls, by call id
    gaveUp,          \* keys whose cache entry was written after 3 failed attempts
    saveFailed,      \* the storage backend failed in the last saveCache
    \* ---- lyrics clean-up (lyrics.ts) ----
    rawLyrics,       \* the argument of cleanLyrics
    cleaned,         \* its return value
    cpc              \* "input" before the call, "done" after it

mergeVars == <<segments, connected, mpc>>
segVars   == <<lyrics, spc, lineNo, segmentedLines, processedLines, analyzerLog, outcome,
              errorMessage>>
lyrVars   == <<production, geniusClient, fetches>>
dictVars  == <<timeSinceLastRequest, cache, stored, cacheLoaded, calls, gaveUp, saveFailed>>
cleanVars == <<rawLyrics, cleaned, cpc>>
vars      == <<mergeVars, segVars, lyrVars, dictVars, cleanVars>>

(***************************************************************************)
(* Strings                                                                 *)
(***************************************************************************)
Undefined == <<>>
Some(x) == <<x>>

RECURSIVE SumSeq(_)
SumSeq(s) == IF s = <<>> THEN 0 ELSE Head(s) + SumSeq(Tail(s))

RECURSIVE Flatten(_)
Flatten(ss) == IF ss = <<>> THEN <<>> ELSE Head(ss) \o Flatten(Tail(ss))

SeqsUpTo(S, n) == UNION {[1..k -> S] : k \in 0..n}

\* isJapaneseWord / isRomanizedText: /[\u3040-\u309F\u30A0-\u30FF\u4E00-\u9FAF]/
IsJapaneseChar(c) ==
    \/ (c >= 12352 /\ c <= 12447)
    \/ (c >= 12448 /\ c <= 12543)
    \/ (c >= 19968 /\ c <= 40879)

\* JavaScript \s and String.prototype.trim: tab, LF, VT, FF, CR, space,
\* no-break space, ideographic space
IsSpaceChar(c) == c \in {9, 10, 11, 12, 13, 32, 160, 12288}

RECURSIVE TrimStart(_)
TrimStart(s) ==
    IF s /= <<>> /\ IsSpaceChar(Head(s)) THEN TrimStart(Tail(s)) ELSE s

RECURSIVE TrimEnd(_)
TrimEnd(s) ==
    IF s /= <<>> /\ IsSpaceChar(s[Len(s)]) THEN TrimEnd(SubSeq(s, 1, Len(s) - 1)) ELSE s

Trim(s) == TrimEnd(TrimStart(s))

StartsWith(s, p) == Len(p) <= Len(s) /\ SubSeq(s, 1, Len(p)) = p

EndsWith(s, c) == s /= <<>> /\ s[Len(s)] = c

(***************************************************************************)
(* ProcessorService.connectSmallTsuSegments                                *)
(***************************************************************************)
SmallTsu == 12387

verbEndings ==
    << <<12390>>, <<12383>>, <<12384>>,
       <<12391>>, <<12393>>,
       <<12395>>, <<12398>>, <<12399>>, <<12364>>, <<12434>>,
       <<12388, 12388>>, <<12394, 12364, 12425>>, <<12383, 12426>>, <<12426>>,
       <<12358>>, <<12424, 12358>>, <<12414, 12356>>, <<12378>>, <<12396>>,
       <<12397>>, <<12394>>, <<12424>>, <<12431>>, <<12373>> >>

shouldConnect_Any(nextSegment) == nextSegment.text /= <<>>

shouldConnect(nextSegment) ==
    \E k \in 1..Len(verbEndings) : StartsWith(nextSegment.text, verbEndings[k])

\* segment.dictionary || []
DictOrEmpty(d) == IF d = Undefined THEN <<>> ELSE d[1]

connectedSegment_KeepFirst(currentSegment, nextSegment) ==
    [ text        |-> currentSegment.text \o nextSegment.text,
      reading     |-> currentSegment.reading \o nextSegment.reading,
      translation |-> currentSegment.translation,
      dictionary  |-> currentSegment.dictionary ]

connectedSegment_FirstReading(currentSegment, nextSegment) ==
    [ text        |-> currentSegment.text \o nextSegment.text,
      reading     |-> currentSegment.reading,
      translation |-> currentSegment.translation \o <<32>> \o nextSegment.translation,
      dictionary  |-> Some(DictOrEmpty(currentSegment.dictionary)
                           \o DictOrEmpty(nextSegment.dictionary)) ]

connectedSegment(currentSegment, nextSegment) ==
    [ text        |-> currentSegment.text \o nextSegment.text,
      reading     |-> currentSegment.reading \o nextSegment.reading,
      translation |-> currentSegment.translation \o <<32>> \o nextSegment.translation,
      dictionary  |-> Some(DictOrEmpty(currentSegment.dictionary)
                           \o DictOrEmpty(nextSegment.dictionary)) ]

RECURSIVE connectLoop(_, _, _)
connectLoop(segs, i, acc) ==
    IF i > Len(segs) THEN acc
    ELSE IF EndsWith(segs[i].text, SmallTsu) /\ i + 1 <= Len(segs)
         THEN IF shouldConnect(segs[i + 1])
              THEN connectLoop(segs, i + 2,
                               Append(acc, connectedSegment(segs[i], segs[i + 1])))
              ELSE connectLoop(segs, i + 1, Append(acc, segs[i]))
         ELSE connectLoop(segs, i + 1, Append(acc, segs[i]))

RECURSIVE connectSmallTsuSegments_Repeat(_)
connectSmallTsuSegments_Repeat(segs) ==
    IF Len(segs) < 2 THEN segs
    ELSE LET once == connectLoop(segs, 1, <<>>)
         IN  IF once = segs THEN segs ELSE connectSmallTsuSegments_Repeat(once)

connectSmallTsuSegments(segs) ==
    IF Len(segs) < 2 THEN segs ELSE connectLoop(segs, 1, <<>>)

\* 'No definition available'
NoDefinitionAvailable ==
    <<78, 111, 32, 100, 101, 102, 105, 110, 105, 116, 105, 111, 110, 32, 97, 118, 97, 105, 108, 97, 98, 108, 101>>

\* The segments the merge is tried on: text, reading, translation, gloss
\* (texts: hi+small tsu, small tsu, te, te+small tsu, inu, tsu).
MaxSegs == 3

SegPool ==
    { [text |-> <<24341, 12387>>, reading |-> <<12402, 12387>>,
       translation |-> <<112, 117, 108, 108>>, dictionary |-> Some(<< <<112, 117, 108, 108>> >>)],
      [text |-> <<12387>>, reading |-> <<12387>>,
       translation |-> <<116, 115, 117>>, dictionary |-> Undefined],
      [text |-> <<12390>>, reading |-> <<12390>>,
       translation |-> <<97, 110, 100>>, dictionary |-> Some(<< <<97, 110, 100>> >>)],
      [text |-> <<12390, 12387>>, reading |-> <<12390, 12387>>,
       translation |-> <<116, 101>>, dictionary |-> Undefined],
      [text |-> <<29356>>, reading |-> <<12356, 12396>>,
       translation |-> <<100, 111, 103>>, dictionary |-> Some(<< <<100, 111, 103>> >>)],
      [text |-> <<12388>>, reading |-> <<12388>>,
       translation |-> NoDefinitionAvailable,
       dictionary |-> Some(<<NoDefinitionAvailable>>)] }

MergeIdle ==
    /\ segments = <<>> /\ connected = <<>> /\ mpc = "off"

MergeInit ==
    /\ segments \in SeqsUpTo(SegPool, MaxSegs)
    /\ connected = <<>>
    /\ mpc = "input"

Connect ==
    /\ mpc = "input"
    /\ connected' = connectSmallTsuSegments(segments)
    /\ mpc' = "done"
    /\ UNCHANGED segments

(***************************************************************************)
(* SegmentationService                                                     *)
(***************************************************************************)
\* lyrics.split('\n')
RECURSIVE SplitLinesFrom(_, _, _)
SplitLinesFrom(s, cur, acc) ==
    IF s = <<>> THEN Append(acc, cur)
    ELSE IF Head(s) = 10 THEN SplitLinesFrom(Tail(s), <<>>, Append(acc, cur))
    ELSE SplitLinesFrom(Tail(s), Append(cur, Head(s)), acc)

SplitLines(s) == SplitLinesFrom(s, <<>>, <<>>)

\* text.replace(/\s+/g, ' ')
RECURSIVE CollapseSpaces(_)
CollapseSpaces(s) ==
    IF s = <<>> THEN <<>>
    ELSE IF IsSpaceChar(Head(s)) THEN <<32>> \o CollapseSpaces(TrimStart(s))
    ELSE <<Head(s)>> \o CollapseSpaces(Tail(s))

ContainsJapanese(text) == \E i \in 1..Len(text) : IsJapaneseChar(text[i])

isRomanizedText(text) == ~ContainsJapanese(text)

\* [.,!?;:\"()\[\]\-]
IsDelimChar(c) == c \in {46, 44, 33, 63, 59, 58, 34, 40, 41, 91, 93, 45}

\* text.split(/(\s+|[.,!?;:\"()\[\]\-])/).filter(p => p !== '')
RECURSIVE SplitParts(_, _, _)
SplitParts(s, cur, acc) ==
    LET flushed == IF cur = <<>> THEN acc ELSE Append(acc, cur)
    IN  IF s = <<>> THEN flushed
        ELSE IF IsSpaceChar(Head(s))
             THEN LET rest == TrimStart(s)
                  IN  SplitParts(rest, <<>>,
                                 Append(flushed, SubSeq(s, 1, Len(s) - Len(rest))))
        ELSE IF IsDelimChar(Head(s))
             THEN SplitParts(Tail(s), <<>>, Append(flushed, <<Head(s)>>))
        ELSE SplitParts(Tail(s), Append(cur, Head(s)), acc)

PartPos(p) ==
    IF p /= <<>> /\ \A i \in 1..Len(p) : IsSpaceChar(p[i]) THEN "whitespace"
    ELSE IF Len(p) = 1 /\ IsDelimChar(p[1]) THEN "punct"
    ELSE "latin"

tokenizeRomanized_PerChar(text) ==
    [k \in 1..Len(text) |->
        [surface |-> <<text[k]>>, reading |-> <<text[k]>>, pos |-> PartPos(<<text[k]>>)]]

tokenizeRomanized(text) ==
    LET parts == SplitParts(text, <<>>, <<>>)
    IN  [k \in 1..Len(parts) |->
            [surface |-> parts[k], reading |-> parts[k], pos |-> PartPos(parts[k])]]

\* posMap, keyed by the analyzer's part-of-speech tag
posMap ==
    << <<<<21517, 35422>>, "noun">>,
       <<<<21205, 35422>>, "verb">>,
       <<<<24418, 23481, 35422>>, "adjective">>,
       <<<<24418, 23481, 21205, 35422>>, "adjective">>,
       <<<<21103, 35422>>, "adverb">>,
       <<<<21161, 35422>>, "particle">>,
       <<<<21161, 21205, 35422>>, "particle">>,
       <<<<25509, 32154, 35422>>, "conjunction">>,
       <<<<24863, 21205, 35422>>, "interjection">>,
       <<<<25509, 38957, 35422>>, "prefix">>,
       <<<<25509, 23614, 36766>>, "suffix">>,
       <<<<35352, 21495>>, "symbol">>,
       <<<<12381, 12398, 20182>>, "other">>,
       <<<<12501, 12451, 12521, 12540>>, "filler">>,
       <<<<26410, 30693, 35486>>, "unknown">> >>

mapMeCabPosToSimple(mecabPos) ==
    IF \E k \in 1..Len(posMap) : posMap[k][1] = mecabPos
    THEN posMap[CHOOSE k \in 1..Len(posMap) : posMap[k][1] = mecabPos][2]
    ELSE "unknown"

\* 'UNKNOWN'
PosUnknownTag == <<85, 78, 75, 78, 79, 87, 78>>

\* analyzeWithMeCab: the analyzer either throws or returns tokens
\* {surface, stat, feature: {pos?, reading?}}; null is Undefined.
analyzeWithMeCab(analysis) ==
    IF analysis.kind = "throw" THEN Undefined
    ELSE IF analysis.tokens = <<>> THEN Undefined
    ELSE LET IsUsable(token) == token.stat = "NORMAL" \/ token.stat = "UNKNOWN"
             usable == SelectSeq(analysis.tokens, IsUsable)
             mapped == [k \in 1..Len(usable) |->
                          [surface |-> usable[k].surface,
                           pos |-> mapMeCabPosToSimple(
                                       IF usable[k].pos = Undefined \/ usable[k].pos = Some(<<>>)
                                       THEN PosUnknownTag ELSE usable[k].pos[1]),
                           reading |-> IF usable[k].reading = Undefined
                                          \/ usable[k].reading = Some(<<>>)
                                       THEN usable[k].surface ELSE usable[k].reading[1]]]
             HasSurface(m) == Trim(m.surface) /= <<>>
         IN  Some(SelectSeq(mapped, HasSurface))

enhanceMorphemesWithReadings(morphemes) ==
    [k \in 1..Len(morphemes) |->
        [morphemes[k] EXCEPT !.reading =
            IF morphemes[k].reading = <<>> THEN morphemes[k].surface
            ELSE morphemes[k].reading]]

\* segmentText: the morphemes returned, or the code of the ApiError thrown;
\* invoked tells whether the analyzer was called.
segmentText(text, analysis) ==
    IF Trim(text) = <<>>
    THEN [ok |-> FALSE, code |-> "INVALID_INPUT", morphemes |-> <<>>, invoked |-> FALSE]
    ELSE LET cleanText == CollapseSpaces(Trim(text))
             romanized == tokenizeRomanized(cleanText)
         IN  IF isRomanizedText(cleanText) /\ Len(romanized) > 0
             THEN [ok |-> TRUE, code |-> "", morphemes |-> romanized, invoked |-> FALSE]
             ELSE LET analyzed == analyzeWithMeCab(analysis)
                      HasSurface(m) == Trim(m.surface) /= <<>>
                  IN  IF analyzed = Undefined \/ analyzed = Some(<<>>)
                      THEN [ok |-> FALSE, code |-> "SEGMENTATION_FAILED",
                            morphemes |-> <<>>, invoked |-> TRUE]
                      ELSE IF SelectSeq(analyzed[1], HasSurface) = <<>>
                      THEN [ok |-> FALSE, code |-> "NO_VALID_SEGMENTS",
                            morphemes |-> <<>>, invoked |-> TRUE]
                      ELSE [ok |-> TRUE, code |-> "",
                            morphemes |-> enhanceMorphemesWithReadings(
                                              SelectSeq(analyzed[1], HasSurface)),
                            invoked |-> TRUE]

fallbackSegments_NoSplit(line) == tokenizeRomanized(line)

\* the catch block of segmentLyrics
fallbackSegments(line) ==
    IF isRomanizedText(line) THEN tokenizeRomanized(line)
    ELSE [k \in 1..Len(line) |->
            [surface |-> <<line[k]>>, pos |-> "unknown", reading |-> <<line[k]>>]]

segmentLine_NoFallback(line, analysis) ==
    IF Len(line) = 0 THEN <<>> ELSE segmentText(line, analysis).morphemes

\* one iteration of the loop of segmentLyrics on the trimmed line
segmentLine(line, analysis) ==
    IF Len(line) = 0 THEN <<>>
    ELSE LET r == segmentText(line, analysis)
         IN  IF r.ok THEN r.morphemes ELSE fallbackSegments(line)

(***************************************************************************)
(* ProcessorService.processLyrics                                          *)
(***************************************************************************)
\* A dictionary result is Undefined (null) or Some of {word, definitions};
\* definitions is Some list of strings, or Undefined when the field is missing.

\* the body of the try block that builds one segment
TrySegment(morpheme, dictionaryData) ==
    LET hasData == dictionaryData /= Undefined
        defs == IF hasData THEN dictionaryData[1].definitions ELSE Undefined
        translation == IF hasData /\ defs /= Undefined /\ Len(defs[1]) > 0
                       THEN defs[1][1] ELSE morpheme.surface
    IN  IF hasData /\ defs = Undefined
        THEN [threw |-> TRUE, segment |-> <<>>]
        ELSE [threw |-> FALSE,
              segment |-> Some(
                [text |-> morpheme.surface,
                 reading |-> IF morpheme.reading = <<>> THEN morpheme.surface
                             ELSE morpheme.reading,
                 translation |-> translation,
                 dictionary |-> IF hasData
                                THEN Some(<< IF Len(defs[1]) > 0 /\ defs[1][1] /= <<>>
                                             THEN defs[1][1] ELSE NoDefinitionAvailable >>)
                                ELSE Undefined])]

\* the body of the catch block that builds the fallback segment
CatchSegment(morpheme, dictionaryData) ==
    LET hasData == dictionaryData /= Undefined
        defs == IF hasData THEN dictionaryData[1].definitions ELSE Undefined
    IN  IF hasData /\ defs = Undefined
        THEN [threw |-> TRUE, segment |-> <<>>]
        ELSE [threw |-> FALSE,
              segment |-> Some(
                [text |-> morpheme.surface,
                 reading |-> IF morpheme.reading = <<>> THEN morpheme.surface
                             ELSE morpheme.reading,
                 translation |-> morpheme.surface,
                 dictionary |-> IF hasData
                                THEN Some(<< IF Len(defs[1]) > 0 /\ defs[1][1] /= <<>>
                                             THEN defs[1][1] ELSE NoDefinitionAvailable >>)
                                ELSE Undefined])]

\* one iteration of the inner loop: try, then catch
buildSegment(morpheme, dictionaryData) ==
    LET t == TrySegment(morpheme, dictionaryData)
    IN  IF t.threw THEN CatchSegment(morpheme, dictionaryData) ELSE t

\* the message of the TypeError that dictionaryData.definitions[0] throws
\* when definitions is undefined:
\* "Cannot read properties of undefined (reading '0')"
TypeErrorMessage ==
    <<67, 97, 110, 110, 111, 116, 32, 114, 101, 97, 100, 32, 112, 114, 111,
      112, 101, 114, 116, 105, 101, 115, 32, 111, 102, 32, 117, 110, 100,
      101, 102, 105, 110, 101, 100, 32, 40, 114, 101, 97, 100, 105, 110, 103,
      32, 39, 48, 39, 41>>

\* 'Lyrics are required for processing'
LyricsAreRequired ==
    <<76, 121, 114, 105, 99, 115, 32, 97, 114, 101, 32, 114, 101, 113, 117,
      105, 114, 101, 100, 32, 102, 111, 114, 32, 112, 114, 111, 99, 101, 115,
      115, 105, 110, 103>>

\* 'Failed to process lyrics: '
FailedToProcessLyrics ==
    <<70, 97, 105, 108, 101, 100, 32, 116, 111, 32, 112, 114, 111, 99, 101,
      115, 115, 32, 108, 121, 114, 105, 99, 115, 58, 32>>

\* the message of the ApiError of the outer catch block:
\* `Failed to process lyrics: ${error.message}`
processingFailedMessage(error) == FailedToProcessLyrics \o error

\* the inner loop and the merge of one line
processLine(morphemes, dictionaryResults) ==
    LET built == [j \in 1..Len(morphemes) |->
                     buildSegment(morphemes[j], dictionaryResults[j])]
    IN  IF \E j \in 1..Len(morphemes) : built[j].threw
        THEN [threw |-> TRUE, segments |-> <<>>, error |-> TypeErrorMessage]
        ELSE [threw |-> FALSE, error |-> <<>>,
              segments |-> connectSmallTsuSegments(
                               [j \in 1..Len(morphemes) |-> built[j].segment[1]])]

\* getStatusCodeForApiError
getStatusCodeForApiError(code) ==
    IF code \in {"INVALID_INPUT", "VALIDATION_ERROR"} THEN 400
    ELSE IF code \in {"LYRICS_NOT_FOUND", "NO_JAPANESE_LYRICS"} THEN 404
    ELSE IF code \in {"SEGMENTATION_FAILED", "PROCESSING_ERROR", "NO_VALID_SEGMENTS",
                      "NO_VALID_LINES", "COMPLETE_SEGMENTATION_FAILURE"} THEN 422
    ELSE IF code = "RATE_LIMIT_EXCEEDED" THEN 429
    ELSE 500

\* errorHandler on an ApiError: the status and the error object of the body
errorHandler(code, message) ==
    [status |-> getStatusCodeForApiError(code),
     error |-> [message |-> message, code |-> code]]

(***************************************************************************)
(* The inputs of processLyrics                                             *)
(***************************************************************************)
MaxTextLen == 4

\* neko (kanji), 'a', space, ',', line feed
TextChars == {29483, 97, 32, 44, 10}

\* 'NEKO' in katakana, the reading the analyzer gives for the kanji
KatakanaNeko == <<12493, 12467>>

CharTokens(text, stat) ==
    [k \in 1..Len(text) |->
        [surface |-> <<text[k]>>, stat |-> stat,
         pos |-> Some(<<21517, 35422>>),
         reading |-> IF text[k] = 29483 THEN Some(KatakanaNeko) ELSE Undefined]]

\* What the external analyzer may do with a text.
AnalyzerChoices(text) ==
    { [kind |-> "throw", tokens |-> <<>>],
      [kind |-> "none", tokens |-> <<>>],
      [kind |-> "discarded", tokens |-> CharTokens(text, "BOS")],
      [kind |-> "chars", tokens |-> CharTokens(text, "NORMAL")],
      [kind |-> "whole",
       tokens |-> << [surface |-> text, stat |-> "UNKNOWN",
                      pos |-> Undefined, reading |-> Undefined] >>] }

NoAnalysis == [kind |-> "notInvoked", tokens |-> <<>>]

\* 'def'
SomeDefinition == <<100, 101, 102>>

\* What lookupSegments may return for one morpheme: null for a surface
\* without Japanese characters, otherwise an entry (found, fallback, with
\* an empty definitions list, or loaded without a definitions field).
DictChoices(morpheme) ==
    IF ~ContainsJapanese(morpheme.surface) THEN {Undefined}
    ELSE { Some([word |-> morpheme.surface, definitions |-> Some(<<SomeDefinition>>)]),
           Some([word |-> morpheme.surface, definitions |-> Some(<<NoDefinitionAvailable>>)]),
           Some([word |-> morpheme.surface, definitions |-> Some(<<>>)]),
           Some([word |-> morpheme.surface, definitions |-> Undefined]) }

DictResultChoices(morphemes) ==
    {d \in [1..Len(morphemes) -> UNION {DictChoices(morphemes[j]) : j \in 1..Len(morphemes)}] :
        \A j \in 1..Len(morphemes) : d[j] \in DictChoices(morphemes[j])}

\* processLyrics: cleanLyrics = lyrics.trim()
cleanLyrics == Trim(lyrics)

\* segmentLyrics: lines = lyrics.split('\n'), on the text processLyrics passes
lines == SplitLines(cleanLyrics)

SegIdle ==
    /\ lyrics = <<>> /\ spc = "off" /\ lineNo = 0
    /\ segmentedLines = <<>> /\ processedLines = <<>>
    /\ analyzerLog = <<>> /\ outcome = "none" /\ errorMessage = <<>>

SegInit ==
    /\ lyrics \in SeqsUpTo(TextChars, MaxTextLen)
    /\ spc = "start" /\ lineNo = 0
    /\ segmentedLines = <<>> /\ processedLines = <<>>
    /\ analyzerLog = <<>> /\ outcome = "none" /\ errorMessage = <<>>

\* processLyrics up to the call of segmentLyrics
ProcessLyrics ==
    /\ spc = "start"
    /\ IF Trim(lyrics) = <<>>
       THEN /\ spc' = "done" /\ outcome' = "INVALID_INPUT" /\ lineNo' = 0
            /\ errorMessage' = LyricsAreRequired
       ELSE /\ spc' = "segment" /\ outcome' = "none" /\ lineNo' = 1
            /\ errorMessage' = errorMessage
    /\ UNCHANGED <<lyrics, segmentedLines, processedLines, analyzerLog>>

\* segmentLyrics: one iteration of the loop over the lines
SegmentLine ==
    /\ spc = "segment"
    /\ LET line == Trim(lines[lineNo])
           invoked == segmentText(line, NoAnalysis).invoked
       IN  \E analysis \in IF invoked THEN AnalyzerChoices(CollapseSpaces(line))
                           ELSE {NoAnalysis} :
              /\ segmentedLines' = Append(segmentedLines, segmentLine(line, analysis))
              /\ analyzerLog' = Append(analyzerLog, analysis.kind)
    /\ IF lineNo = Len(lines)
       THEN spc' = "process" /\ lineNo' = 1
       ELSE spc' = "segment" /\ lineNo' = lineNo + 1
    /\ UNCHANGED <<lyrics, processedLines, outcome, errorMessage>>

\* processLyrics: one iteration of the loop over the segmented lines
ProcessLine ==
    /\ spc = "process"
    /\ \E dictionaryResults \in DictResultChoices(segmentedLines[lineNo]) :
          LET r == processLine(segmentedLines[lineNo], dictionaryResults)
          IN  IF r.threw
              THEN /\ spc' = "done" /\ outcome' = "PROCESSING_FAILED"
                   /\ errorMessage' = processingFailedMessage(r.error)
                   /\ UNCHANGED <<processedLines, lineNo>>
              ELSE /\ processedLines' = Append(processedLines, r.segments)
                   /\ errorMessage' = errorMessage
                   /\ IF lineNo = Len(segmentedLines)
                      THEN spc' = "done" /\ outcome' = "ok" /\ lineNo' = lineNo
                      ELSE spc' = "process" /\ outcome' = outcome /\ lineNo' = lineNo + 1
    /\ UNCHANGED <<lyrics, segmentedLines, analyzerLog>>


(***************************************************************************)
(* LyricsService                                                           *)
(***************************************************************************)
\* String.prototype.toLowerCase on the letters A-Z
ToLower(s) == [k \in 1..Len(s) |-> IF s[k] >= 65 /\ s[k] <= 90 THEN s[k] + 32 ELSE s[k]]

\* String.prototype.includes
Includes(s, sub) ==
    \E k \in 0..(Len(s) - Len(sub)) : SubSeq(s, k + 1, k + Len(sub)) = sub

IndexOfChar(s, c) ==
    IF \E k \in 1..Len(s) : s[k] = c
    THEN CHOOSE k \in 1..Len(s) : s[k] = c /\ \A j \in 1..(k - 1) : s[j] /= c
    ELSE 0

\* s.replace(/\([^)]*\)/g, '') and s.replace(/\[[^\]]*\]/g, ''): every
\* opening character that has a closing one after it goes, up to the first
\* closing one.
RECURSIVE StripGroups(_, _, _)
StripGroups(s, open, close) ==
    IF s = <<>> THEN <<>>
    ELSE IF Head(s) = open /\ IndexOfChar(Tail(s), close) > 0
         THEN StripGroups(SubSeq(s, IndexOfChar(Tail(s), close) + 2, Len(s)), open, close)
         ELSE <<Head(s)>> \o StripGroups(Tail(s), open, close)

\* searchGenius: the query sent to the search provider
searchQuery(title, artist) ==
    LET cleanTitle == Trim(CollapseSpaces(StripGroups(StripGroups(Trim(title), 40, 41), 91, 93)))
        cleanArtist == IF artist = Undefined THEN <<>> ELSE Trim(artist[1])
    IN  IF cleanArtist /= <<>> THEN cleanTitle \o <<32>> \o cleanArtist ELSE cleanTitle

\* 'romanized', 'translation'
WordRomanized == <<114, 111, 109, 97, 110, 105, 122, 101, 100>>

WordTranslation == <<116, 114, 97, 110, 115, 108, 97, 116, 105, 111, 110>>

keepSong_TitleOnly(song) ==
    LET songTitle == ToLower(song.title)
    IN  ~Includes(songTitle, WordRomanized) /\ ~Includes(songTitle, WordTranslation)

\* the filter of searchGenius on one search result
keepSong(song) ==
    LET songTitle == ToLower(song.title)
        songArtist == ToLower(song.artist)
        hasRomanized == Includes(songTitle, WordRomanized) \/ Includes(songArtist, WordRomanized)
        hasTranslation == Includes(songTitle, WordTranslation) \/ Includes(songArtist, WordTranslation)
    IN  ~hasRomanized /\ ~hasTranslation

filteredSearches(searches) == SelectSeq(searches, keepSong)

(***************************************************************************)
(* The fetchLyrics calls                                                   *)
(***************************************************************************)
MaxFetches == 2

MaxHits == 2

FetchIds == 1..MaxFetches

\* titles 'a', 'a(b)', ' a', ' '; artists none and 'x'
FetchTitles == { <<97>>, <<97, 40, 98, 41>>, <<32, 97>>, <<32>> }

FetchArtists == { Undefined, Some(<<120>>) }

\* search results: 'a' by 'x', 'a (Romanized)' by 'x',
\* 'a' by 'Genius English Translations'
SongPool ==
    { [title |-> <<97>>, artist |-> <<120>>],
      [title |-> <<97, 32, 40, 82, 111, 109, 97, 110, 105, 122, 101, 100, 41>>, artist |-> <<120>>],
      [title |-> <<97>>, artist |-> <<71, 101, 110, 105, 117, 115, 32, 69, 110, 103, 108, 105, 115, 104, 32, 84, 114, 97, 110, 115, 108, 97, 116, 105, 111, 110, 115>>] }

NoFetch ==
    [pc |-> "idle", title |-> <<>>, artist |-> Undefined, query |-> <<>>,
     client |-> "null", searches |-> 0, pageFetches |-> 0, song |-> Undefined,
     result |-> Undefined, code |-> "", after |-> {},
     hits |-> <<>>, primaryAttempts |-> 0, primary |-> "none", scraped |-> FALSE,
     built |-> FALSE]

(***************************************************************************)
(* LyricsService.cleanLyrics                                               *)
(***************************************************************************)
IsDigit(c) == c >= 48 /\ c <= 57

\* the line terminators of JavaScript regular expressions: LF, CR, LS, PS
IsLineTerminator(c) == c \in {10, 13, 8232, 8233}

\* ^ under the m flag
AtLineStart(s, i) == i = 1 \/ IsLineTerminator(s[i - 1])

\* .*?(?=\n|$) from position i: the position of the end of the line
RECURSIVE LineEndFrom(_, _)
LineEndFrom(s, i) ==
    IF i > Len(s) \/ IsLineTerminator(s[i]) THEN i ELSE LineEndFrom(s, i + 1)

\* \s* and \d* from position i: the position behind the run
RECURSIVE SkipSpaces(_, _)
SkipSpaces(s, i) ==
    IF i <= Len(s) /\ IsSpaceChar(s[i]) THEN SkipSpaces(s, i + 1) ELSE i

RECURSIVE SkipDigits(_, _)
SkipDigits(s, i) ==
    IF i <= Len(s) /\ IsDigit(s[i]) THEN SkipDigits(s, i + 1) ELSE i

\* The i flag: two characters match when they are the same letter in either
\* case (ASCII, Latin-1, C with caron, and the Russian alphabet, the letters
\* of the patterns).
FoldCase(s) ==
    [k \in 1..Len(s) |->
        IF (s[k] >= 65 /\ s[k] <= 90) \/ (s[k] >= 192 /\ s[k] <= 222 /\ s[k] /= 215)
           \/ (s[k] >= 1040 /\ s[k] <= 1071)
        THEN s[k] + 32
        ELSE IF s[k] = 268 THEN 269 ELSE s[k]]

\* a literal of a pattern with the i flag, given in lower case, at position i
KeywordAt(s, i, kw) ==
    /\ i + Len(kw) - 1 <= Len(s)
    /\ FoldCase(SubSeq(s, i, i + Len(kw) - 1)) = kw

\* Deutsch|Turkce|Espanol|Portugues|Farsi|Francais|Polski|Cesky in their
\* own spelling, and the two names that are followed by \s*\(...\)
LanguageNames ==
    { <<100, 101, 117, 116, 115, 99, 104>>,
      <<116, 252, 114, 107, 231, 101>>,
      <<101, 115, 112, 97, 241, 111, 108>>,
      <<112, 111, 114, 116, 117, 103, 117, 234, 115>>,
      <<1601, 1575, 1585, 1587, 1740>>,
      <<102, 114, 97, 110, 231, 97, 105, 115>>,
      <<112, 111, 108, 115, 107, 105>>,
      <<269, 101, 115, 107, 121>> }

LanguageNamesWithGloss ==
    { << <<3652, 3607, 3618>>, <<40, 116, 104, 97, 105, 41>> >>,
      << <<1088, 1091, 1089, 1089, 1082, 1080, 1081>>, <<40, 114, 117, 115, 115, 105, 97, 110, 41>> >> }

\* Guitar\s+Solo|Piano|Instrumental|Solo|Coda
TechnicalMarkers ==
    { <<112, 105, 97, 110, 111>>, <<105, 110, 115, 116, 114, 117, 109, 101, 110, 116, 97, 108>>, <<115, 111, 108, 111>>, <<99, 111, 100, 97>> }

\* Verse|Chorus|Refrain|Bridge|Intro|Outro|Pre-Chorus|Post-Chorus|Interlude
SectionMarkers ==
    { <<118, 101, 114, 115, 101>>,
      <<99, 104, 111, 114, 117, 115>>,
      <<114, 101, 102, 114, 97, 105, 110>>,
      <<98, 114, 105, 100, 103, 101>>,
      <<105, 110, 116, 114, 111>>,
      <<111, 117, 116, 114, 111>>,
      <<112, 114, 101, 45, 99, 104, 111, 114, 117, 115>>,
      <<112, 111, 115, 116, 45, 99, 104, 111, 114, 117, 115>>,
      <<105, 110, 116, 101, 114, 108, 117, 100, 101>> }

\* \[name\s*\d*\] at position i: the position behind the bracket, or 0
BracketEnd(s, i, nameEnd) ==
    LET q == SkipDigits(s, SkipSpaces(s, nameEnd))
    IN  IF q <= Len(s) /\ s[q] = 93 THEN q + 1 ELSE 0

\* The position behind the match of a pattern of cleanLyrics that starts at
\* position i of s, or 0 when the pattern does not match there.
matchEnd(pattern, s, i) ==
    CASE pattern = "contributors" ->
            LET k == SkipSpaces(s, SkipDigits(s, i))
            IN  IF AtLineStart(s, i) /\ IsDigit(s[i]) /\ KeywordAt(s, k, <<99, 111, 110, 116, 114, 105, 98, 117, 116, 111, 114>>)
                THEN LineEndFrom(s, k + Len(<<99, 111, 110, 116, 114, 105, 98, 117, 116, 111, 114>>)) ELSE 0
      [] pattern = "translations" ->
            IF KeywordAt(s, i, <<116, 114, 97, 110, 115, 108, 97, 116, 105, 111, 110>>)
            THEN LineEndFrom(s, i + Len(<<116, 114, 97, 110, 115, 108, 97, 116, 105, 111, 110>>)) ELSE 0
      [] pattern = "languages" ->
            IF \E n \in LanguageNames : KeywordAt(s, i, n)
            THEN LineEndFrom(s, i)
            ELSE IF \E n \in LanguageNamesWithGloss :
                       /\ KeywordAt(s, i, n[1])
                       /\ KeywordAt(s, SkipSpaces(s, i + Len(n[1])), n[2])
            THEN LET n == CHOOSE n \in LanguageNamesWithGloss :
                              /\ KeywordAt(s, i, n[1])
                              /\ KeywordAt(s, SkipSpaces(s, i + Len(n[1])), n[2])
                 IN  LineEndFrom(s, SkipSpaces(s, i + Len(n[1])) + Len(n[2]))
            ELSE 0
      [] pattern = "technical" ->
            IF s[i] /= 91 THEN 0
            ELSE IF KeywordAt(s, i + 1, <<103, 117, 105, 116, 97, 114>>)
                    /\ SkipSpaces(s, i + 1 + Len(<<103, 117, 105, 116, 97, 114>>)) > i + 1 + Len(<<103, 117, 105, 116, 97, 114>>)
                    /\ KeywordAt(s, SkipSpaces(s, i + 1 + Len(<<103, 117, 105, 116, 97, 114>>)), <<115, 111, 108, 111>>)
            THEN BracketEnd(s, i, SkipSpaces(s, i + 1 + Len(<<103, 117, 105, 116, 97, 114>>)) + Len(<<115, 111, 108, 111>>))
            ELSE IF \E n \in TechnicalMarkers : KeywordAt(s, i + 1, n)
            THEN LET n == CHOOSE n \in TechnicalMarkers : KeywordAt(s, i + 1, n)
                 IN  BracketEnd(s, i, i + 1 + Len(n))
            ELSE 0
      [] pattern = "sections" ->
            IF s[i] /= 91 THEN 0
            ELSE IF \E n \in SectionMarkers : KeywordAt(s, i + 1, n)
            THEN LET n == CHOOSE n \in SectionMarkers : KeywordAt(s, i + 1, n)
                 IN  BracketEnd(s, i, i + 1 + Len(n))
            ELSE 0
      [] pattern = "lyricsHeader" ->
            LET e == LineEndFrom(s, i)
            IN  IF /\ AtLineStart(s, i)
                   /\ e <= Len(s) /\ s[e] = 10
                   /\ Includes(FoldCase(SubSeq(s, i, e - 1)), <<108, 121, 114, 105, 99, 115>>)
                THEN e + 1 ELSE 0
      [] pattern = "readMore" ->
            LET k == SkipSpaces(s, i + Len(<<114, 101, 97, 100>>))
            IN  IF KeywordAt(s, i, <<114, 101, 97, 100>>) /\ k > i + Len(<<114, 101, 97, 100>>) /\ KeywordAt(s, k, <<109, 111, 114, 101>>)
                THEN LineEndFrom(s, k + Len(<<109, 111, 114, 101>>)) ELSE 0

ToUpper(s) == [k \in 1..Len(s) |-> IF s[k] >= 97 /\ s[k] <= 122 THEN s[k] - 32 ELSE s[k]]

\* what a match s[i..e-1] is replaced by: the section markers lose their
\* brackets and are capitalized, every other match is removed
replacement(pattern, s, i, e) ==
    IF pattern = "sections"
    THEN ToUpper(<<s[i + 1]>>) \o ToLower(SubSeq(s, i + 2, e - 2))
    ELSE <<>>

\* cleaned.replace(pattern, ...) with the g flag, from position i on
RECURSIVE replaceAll(_, _, _)
replaceAll(pattern, s, i) ==
    IF i > Len(s) THEN <<>>
    ELSE LET e == matchEnd(pattern, s, i)
         IN  IF e = 0 THEN <<s[i]>> \o replaceAll(pattern, s, i + 1)
             ELSE replacement(pattern, s, i, e) \o replaceAll(pattern, s, e)

\* trimmedLine.replace(/[ \t]+/g, ' ')
RECURSIVE normalizeSpaces(_)
normalizeSpaces(line) ==
    IF line = <<>> THEN <<>>
    ELSE IF Head(line) \in {32, 9}
         THEN IF Len(line) > 1 /\ line[2] \in {32, 9} THEN normalizeSpaces(Tail(line))
              ELSE <<32>> \o normalizeSpaces(Tail(line))
         ELSE <<Head(line)>> \o normalizeSpaces(Tail(line))

\* .join('\n')
RECURSIVE JoinLines(_)
JoinLines(ls) ==
    IF ls = <<>> THEN <<>>
    ELSE IF Len(ls) = 1 THEN ls[1]
    ELSE ls[1] \o <<10>> \o JoinLines(Tail(ls))

RECURSIVE collapseBlankLines_KeepTwo(_)
collapseBlankLines_KeepTwo(s) ==
    IF s = <<>> THEN <<>>
    ELSE IF Len(s) >= 4 /\ s[1] = 10 /\ s[2] = 10 /\ s[3] = 10 /\ s[4] = 10
         THEN collapseBlankLines_KeepTwo(Tail(s))
         ELSE <<Head(s)>> \o collapseBlankLines_KeepTwo(Tail(s))

\* .replace(/\n{3,}/g, '\n\n')
RECURSIVE collapseBlankLines(_)
collapseBlankLines(s) ==
    IF s = <<>> THEN <<>>
    ELSE IF Len(s) >= 3 /\ s[1] = 10 /\ s[2] = 10 /\ s[3] = 10
         THEN collapseBlankLines(Tail(s))
         ELSE <<Head(s)>> \o collapseBlankLines(Tail(s))

\* the patterns of cleanLyrics in the order of their replace calls
cleanLyricsPatterns ==
    << "contributors", "translations", "languages", "technical", "sections",
       "lyricsHeader", "readMore" >>

RECURSIVE applyPatterns(_, _)
applyPatterns(s, k) ==
    IF k > Len(cleanLyricsPatterns) THEN s
    ELSE applyPatterns(replaceAll(cleanLyricsPatterns[k], s, 1), k + 1)

\* LyricsService.cleanLyrics(lyrics)
cleanLyricsOf(text) ==
    IF text = <<>> THEN text
    ELSE LET stripped == applyPatterns(text, 1)
             ls == SplitLines(stripped)
             cleanedLines == [k \in 1..Len(ls) |-> normalizeSpaces(Trim(ls[k]))]
         IN  Trim(collapseBlankLines(JoinLines(cleanedLines)))

\* The raw lyrics cleanLyrics is tried on: up to MaxRawTokens pieces, among
\* them whitespace, a run of line feeds, and texts the patterns match.
MaxRawTokens == 4

RawTokens ==
    { <<97>>,
      <<32>>,
      <<9>>,
      <<10>>,
      <<10, 10, 10>>,
      <<12288>>,
      <<91, 83, 111, 108, 111, 93>>,
      <<91, 118, 101, 114, 115, 101, 32, 49, 93>>,
      <<76, 121, 114, 105, 99, 115>>,
      <<82, 101, 97, 100, 32, 77, 111, 114, 101>> }

RawLyricsChoices ==
    { Flatten(ts) : ts \in SeqsUpTo(RawTokens, MaxRawTokens) }

CleanIdle == rawLyrics = <<>> /\ cleaned = <<>> /\ cpc = "off"

CleanInit ==
    /\ rawLyrics \in RawLyricsChoices
    /\ cleaned = <<>>
    /\ cpc = "input"

CleanLyrics ==
    /\ cpc = "input"
    /\ cleaned' = cleanLyricsOf(rawLyrics)
    /\ cpc' = "done"
    /\ UNCHANGED rawLyrics

\* the calls that had returned lyrics when a call starts
Succeeded == {c \in FetchIds : fetches[c].pc = "done" /\ fetches[c].result /= Undefined}

LyrInit ==
    /\ production \in BOOLEAN
    /\ geniusClient = "null"
    /\ fetches = [c \in FetchIds |-> NoFetch]

NotFound_Rethrown(f) == [f EXCEPT !.pc = "done", !.code = "ERROR"]

\* fetchLyrics throws LYRICS_NOT_FOUND when searchGenius returned null
NotFound(f) == [f EXCEPT !.pc = "done", !.code = "LYRICS_NOT_FOUND"]

\* fetchLyrics returns cleanLyrics(lyrics).trim() for the lyrics of the song
Found(f) == [f EXCEPT !.pc = "done", !.result = Some([lyricsOf |-> f.song[1]])]

\* fetchLyrics up to the first await of searchGenius: the title check, the
\* query, and getGeniusClient up to the import or the search request
FetchLyrics(c, title, artist) ==
    /\ fetches[c].pc = "idle"
    /\ \A d \in FetchIds : d < c => fetches[d].pc /= "idle"
    /\ LET f == [fetches[c] EXCEPT !.title = title, !.artist = artist,
                                   !.after = Succeeded]
       IN  IF Trim(title) = <<>>
           THEN fetches' = [fetches EXCEPT ![c] =
                               [f EXCEPT !.pc = "done", !.code = "INVALID_INPUT"]]
           ELSE IF geniusClient = "null"
           THEN fetches' = [fetches EXCEPT ![c] =
                               [f EXCEPT !.pc = "import", !.query = searchQuery(title, artist)]]
           ELSE fetches' = [fetches EXCEPT ![c] =
                               [f EXCEPT !.pc = "search", !.query = searchQuery(title, artist),
                                         !.client = geniusClient, !.searches = @ + 1]]
    /\ UNCHANGED <<production, geniusClient>>

\* getGeniusClient after the import: the client is created, or in
\* production replaced by the direct API client, or the error is rethrown
ImportDone(c, loaded) ==
    /\ fetches[c].pc = "import"
    /\ IF loaded
       THEN /\ geniusClient' = "library"
            /\ fetches' = [fetches EXCEPT ![c].pc = "search", ![c].client = "library",
                                           ![c].searches = @ + 1, ![c].built = TRUE]
       ELSE IF production
       THEN /\ geniusClient' = "direct"
            /\ fetches' = [fetches EXCEPT ![c].pc = "search", ![c].client = "direct",
                                           ![c].searches = @ + 1, ![c].built = TRUE]
       ELSE /\ geniusClient' = geniusClient
            /\ fetches' = [fetches EXCEPT ![c] = NotFound(@)]
    /\ UNCHANGED production

\* searchGenius after the search: an error, no result (then the diagnostic
\* search is sent), or results that are filtered and the first one fetched
SearchDone(c, threw, searches) ==
    /\ fetches[c].pc = "search"
    /\ threw => fetches[c].client = "library" /\ searches = <<>>
    /\ IF threw
       THEN fetches' = [fetches EXCEPT ![c] = NotFound(@)]
       ELSE IF Len(searches) = 0
       THEN fetches' = [fetches EXCEPT ![c].pc = "testSearch", ![c].searches = @ + 1]
       ELSE IF Len(filteredSearches(searches)) = 0
       THEN fetches' = [fetches EXCEPT ![c] = NotFound([@ EXCEPT !.hits = searches])]
       ELSE fetches' = [fetches EXCEPT ![c].pc = "lyrics",
                                       ![c].hits = searches,
                                       ![c].song = Some(filteredSearches(searches)[1]),
                                       ![c].primaryAttempts = @ + 1,
                                       ![c].scraped = (fetches[c].client = "direct"),
                                       ![c].pageFetches = @ + 1]
    /\ UNCHANGED <<production, geniusClient>>

\* the diagnostic search for "faded" returned or failed
TestSearchDone(c) ==
    /\ fetches[c].pc = "testSearch"
    /\ fetches' = [fetches EXCEPT ![c] = NotFound(@)]
    /\ UNCHANGED <<production, geniusClient>>

\* firstSong.lyrics() settled: text, nothing, a 404 / NoResultError error
\* (then the page is scraped), or another error; the accessor of the direct
\* API client is fetchLyricsAlternative, which does not throw
LyricsDone(c, how) ==
    /\ fetches[c].pc = "lyrics"
    /\ how \in {"text", "empty", "notFoundError", "otherError"}
    /\ how \in {"notFoundError", "otherError"} => fetches[c].client = "library"
    /\ CASE how = "text" -> fetches' = [fetches EXCEPT ![c] = Found([@ EXCEPT !.primary = how])]
         [] how = "empty" -> fetches' = [fetches EXCEPT ![c] = NotFound([@ EXCEPT !.primary = how])]
         [] how = "notFoundError" ->
                fetches' = [fetches EXCEPT ![c].pc = "alternative", ![c].primary = how,
                                           ![c].scraped = TRUE, ![c].pageFetches = @ + 1]
         [] how = "otherError" ->
                fetches' = [fetches EXCEPT ![c] = NotFound([@ EXCEPT !.primary = how])]
    /\ UNCHANGED <<production, geniusClient>>

\* fetchLyricsAlternative settled: lyrics extracted from the page, or null
AlternativeDone(c, extracted) ==
    /\ fetches[c].pc = "alternative"
    /\ IF extracted
       THEN fetches' = [fetches EXCEPT ![c] = Found(@)]
       ELSE fetches' = [fetches EXCEPT ![c] = NotFound(@)]
    /\ UNCHANGED <<production, geniusClient>>

(***************************************************************************)
(* DictionaryService                                                       *)
(***************************************************************************)
maxRetries == 3

retryDelay == 1000

batchSize == 8

batchDelay == 300

minRequestInterval == 200

\* the clock is read every TickMs, and a request is answered within MaxLatency
TickMs == 100

MaxLatency == 200

isJapaneseWord_Any(word) == word /= <<>>

isJapaneseWord(word) == word /= <<>> /\ \E k \in 1..Len(word) : IsJapaneseChar(word[k])

NoEntries == [k \in {} |-> k]

\* the entry lookupWord builds from the first search result
foundResult(cleanWord) ==
    [word |-> cleanWord, definitions |-> <<SomeDefinition>>,
     partOfSpeech |-> <<"noun">>, readings |-> <<cleanWord>>]

fallbackResult(cleanWord) ==
    [word |-> cleanWord, definitions |-> <<NoDefinitionAvailable>>,
     partOfSpeech |-> <<"unknown">>, readings |-> <<cleanWord>>]

getFromCache(entries, word) ==
    IF word \in DOMAIN entries
    THEN Some([word |-> entries[word].word, definitions |-> entries[word].definitions,
               partOfSpeech |-> entries[word].partOfSpeech,
               readings |-> entries[word].readings])
    ELSE Undefined

\* a cache entry: the result and its timestamp.  Of the timestamp the
\* entry keeps whether it lies a time-to-live or more back: it does not
\* for an entry written now, and no behaviour here is long enough for one
\* to get that old.
CacheEntry(result, expired) ==
    [word |-> result.word, definitions |-> result.definitions,
     partOfSpeech |-> result.partOfSpeech, readings |-> result.readings,
     expired |-> expired]

addToCache_FoundOnly(entries, word, result) ==
    IF result.partOfSpeech = <<"unknown">> THEN entries
    ELSE [k \in DOMAIN entries \cup {word} |->
             IF k = word THEN CacheEntry(result, FALSE) ELSE entries[k]]

\* addToCache: this.cache.entries[word] = {...result, timestamp: Date.now()}
addToCache(entries, word, result) ==
    [k \in DOMAIN entries \cup {word} |->
        IF k = word THEN CacheEntry(result, FALSE) ELSE entries[k]]

NoTask ==
    [word |-> <<>>, cleanWord |-> <<>>, pc |-> "done", attempt |-> 0, timer |-> 0,
     sinceLast |-> minRequestInterval,
     requests |-> 0, failures |-> 0, result |-> Undefined, onGaveUp |-> FALSE]

Min(a, b) == IF a < b THEN a ELSE b

Max(a, b) == IF a > b THEN a ELSE b

\* Time is kept as distances from Date.now(): since, the time since
\* lastRequestTime, and the timers, the time left to a sleeping lookup or
\* to an unanswered request.  The lookups of a group start one after the
\* other, each on the lastRequestTime the one before it left.

\* lastRequestTime = Date.now() and the request is sent; sinceLast keeps how
\* long after the request before it this one went out
sendRequest(task, since) ==
    [task |-> [task EXCEPT !.pc = "request", !.requests = @ + 1, !.timer = MaxLatency,
                           !.sinceLast = since],
     since |-> 0]

\* the head of the retry loop: sleep out the rest of minRequestInterval, or
\* send at once
attemptRequest(task, since) ==
    IF since < minRequestInterval
    THEN [task |-> [task EXCEPT !.pc = "throttle", !.timer = minRequestInterval - since],
          since |-> since]
    ELSE sendRequest(task, since)

startLookup_Stamped(word, since) ==
    LET cleanWord == Trim(word)
        task == [NoTask EXCEPT !.word = word, !.cleanWord = cleanWord,
                               !.onGaveUp = cleanWord \in gaveUp]
    IN  IF word = <<>> \/ cleanWord = <<>>
        THEN [task |-> task, since |-> since]
        ELSE IF Len(cleanWord) = 1 /\ ~isJapaneseWord(cleanWord)
        THEN [task |-> task, since |-> since]
        ELSE IF ~isJapaneseWord(cleanWord)
        THEN [task |-> task, since |-> since]
        ELSE IF getFromCache(cache, cleanWord) /= Undefined
        THEN [task |-> [task EXCEPT !.result = getFromCache(cache, cleanWord)],
              since |-> 0]
        ELSE attemptRequest([task EXCEPT !.attempt = 1], since)

\* lookupWord up to its first await: the checks, the cache, the first attempt
startLookup(word, since) ==
    LET cleanWord == Trim(word)
        task == [NoTask EXCEPT !.word = word, !.cleanWord = cleanWord,
                               !.onGaveUp = cleanWord \in gaveUp]
    IN  IF word = <<>> \/ cleanWord = <<>>
        THEN [task |-> task, since |-> since]
        ELSE IF Len(cleanWord) = 1 /\ ~isJapaneseWord(cleanWord)
        THEN [task |-> task, since |-> since]
        ELSE IF ~isJapaneseWord(cleanWord)
        THEN [task |-> task, since |-> since]
        ELSE IF getFromCache(cache, cleanWord) /= Undefined
        THEN [task |-> [task EXCEPT !.result = getFromCache(cache, cleanWord)],
              since |-> since]
        ELSE attemptRequest([task EXCEPT !.attempt = 1], since)

\* batch.map(...): the lookups of one group are started one after the other
RECURSIVE startGroup(_, _, _)
startGroup(batch, since, tasks) ==
    IF batch = <<>> THEN [tasks |-> tasks, since |-> since]
    ELSE LET r == startLookup(Head(batch).word, since)
         IN  startGroup(Tail(batch), r.since, Append(tasks, r.task))

\* the pre-filter loop of lookupBatch: results of the cache hits
prefilterResults(words) ==
    [i \in 1..Len(words) |->
        IF ~isJapaneseWord(words[i]) THEN Undefined ELSE getFromCache(cache, words[i])]

\* the pre-filter loop of lookupBatch: wordsToProcess
RECURSIVE wordsToProcess(_, _)
wordsToProcess(words, i) ==
    IF i > Len(words) THEN <<>>
    ELSE IF isJapaneseWord(words[i]) /\ getFromCache(cache, words[i]) = Undefined
         THEN <<[index |-> i, word |-> words[i]]>> \o wordsToProcess(words, i + 1)
         ELSE wordsToProcess(words, i + 1)

\* wordsToProcess.slice(i, i + batchSize), i counted from 0
groupAt(toProcess, i) ==
    SubSeq(toProcess, i + 1, IF i + batchSize < Len(toProcess) THEN i + batchSize
                             ELSE Len(toProcess))

storeResults_ByPosition(results, batch, tasks) ==
    [i \in 1..Len(results) |-> IF i <= Len(batch) THEN tasks[i].result ELSE results[i]]

\* batchResults.forEach(({ index, result }) => results[index] = result)
storeResults(results, batch, tasks) ==
    [i \in 1..Len(results) |->
        IF \E k \in 1..Len(batch) : batch[k].index = i
        THEN tasks[CHOOSE k \in 1..Len(batch) : batch[k].index = i].result
        ELSE results[i]]

NoCall ==
    [kind |-> "none", pc |-> "idle", words |-> <<>>, results |-> <<>>,
     toProcess |-> <<>>, i |-> 0, tasks |-> <<>>, timer |-> 0, afterGaveUp |-> {}]

\* What follows the settling of the lookups of a call: lookupWord returns;
\* lookupBatch, once Promise.all has every lookup of the group, stores the
\* results and either pauses before the next group or returns.
settle_Race(call) ==
    IF \A k \in 1..Len(call.tasks) : call.tasks[k].pc /= "done" THEN call
    ELSE IF call.kind = "word"
    THEN [call EXCEPT !.pc = "done", !.results = <<call.tasks[1].result>>]
    ELSE LET stored2 == storeResults(call.results, groupAt(call.toProcess, call.i), call.tasks)
         IN  IF call.i + batchSize < Len(call.toProcess)
             THEN [call EXCEPT !.pc = "batchDelay", !.results = stored2,
                               !.timer = batchDelay]
             ELSE [call EXCEPT !.pc = "done", !.results = stored2]

settle(call) ==
    IF \E k \in 1..Len(call.tasks) : call.tasks[k].pc /= "done" THEN call
    ELSE IF call.kind = "word"
    THEN [call EXCEPT !.pc = "done", !.results = <<call.tasks[1].result>>]
    ELSE LET stored2 == storeResults(call.results, groupAt(call.toProcess, call.i), call.tasks)
         IN  IF call.i + batchSize < Len(call.toProcess)
             THEN [call EXCEPT !.pc = "batchDelay", !.results = stored2,
                               !.timer = batchDelay]
             ELSE [call EXCEPT !.pc = "done", !.results = stored2]

(***************************************************************************)
(* The lookups                                                             *)
(***************************************************************************)
MaxCalls == 1

MaxBatchLen == 2

MaxActive == 2

CallIds == 1..MaxCalls

\* inu, ' neko', 'Hi'
Words == { <<29356>>, <<32, 29483>>, <<72, 105>> }

\* more words than one group holds, all ' neko'
LongBatch == [k \in 1..(batchSize + 1) |-> <<32, 29483>>]

\* a batch of batchSize + 1 words whose first word differs from the others:
\* when only the others are cached, its first group holds a remote lookup
MixedBatch == [k \in 1..(batchSize + 1) |-> IF k = 1 THEN <<29356>> ELSE <<32, 29483>>]

BatchInputs == SeqsUpTo(Words, MaxBatchLen) \cup {LongBatch, MixedBatch}

\* what the storage backend holds when the process starts: nothing, or an
\* entry of inu that an earlier run wrote, lately or long ago
StoredChoices ==
    { NoEntries }
    \cup { [k \in {<<29356>>} |-> CacheEntry(foundResult(<<29356>>), expired)] :
               expired \in BOOLEAN }

Pending(call) == {k \in 1..Len(call.tasks) : call.tasks[k].pc /= "done"}

ActiveTasks == SumSeq([c \in CallIds |-> Cardinality(Pending(calls[c]))])

\* a sleep that is over and whose lookup has not gone on yet
TimerDue ==
    \E c \in CallIds :
        \/ calls[c].pc = "batchDelay" /\ calls[c].timer = 0
        \/ \E k \in 1..Len(calls[c].tasks) :
              /\ calls[c].tasks[k].pc \in {"throttle", "backoff"}
              /\ calls[c].tasks[k].timer = 0

\* a request that has been out for MaxLatency
ResponseDue ==
    \E c \in CallIds : \E k \in 1..Len(calls[c].tasks) :
        /\ calls[c].tasks[k].pc = "request"
        /\ calls[c].tasks[k].timer < TickMs

\* a timer is running
Timing ==
    \E c \in CallIds :
        \/ calls[c].pc = "batchDelay"
        \/ \E k \in 1..Len(calls[c].tasks) : calls[c].tasks[k].pc /= "done"

\* TickMs later
later(call) ==
    [call EXCEPT !.timer = Max(0, @ - TickMs),
                 !.tasks = [k \in 1..Len(call.tasks) |->
                               [call.tasks[k] EXCEPT !.timer = Max(0, @ - TickMs)]]]

DictInit ==
    /\ timeSinceLastRequest = minRequestInterval
    /\ cache = NoEntries
    /\ stored \in StoredChoices
    /\ cacheLoaded = FALSE
    /\ calls = [c \in CallIds |-> NoCall]
    /\ gaveUp = {}
    /\ saveFailed = FALSE

\* loadCache resumes with what storage.load() returned: the stored snapshot,
\* or an empty cache when reading it failed.  Both backends settle load()
\* without leaving the event loop turn, so no lookup runs before this.
LoadCache_Late(readable) ==
    /\ cacheLoaded' = TRUE
    /\ cache' = IF readable THEN stored ELSE NoEntries
    /\ UNCHANGED <<timeSinceLastRequest, stored, calls, gaveUp, saveFailed>>

LoadCache(readable) ==
    /\ ~cacheLoaded
    /\ cacheLoaded' = TRUE
    /\ cache' = IF readable THEN stored ELSE NoEntries
    /\ UNCHANGED <<timeSinceLastRequest, stored, calls, gaveUp, saveFailed>>

\* TickMs pass.  A lookup goes on as soon as its sleep is over, and a
\* request is answered within MaxLatency.
Tick ==
    /\ cacheLoaded
    /\ ~TimerDue
    /\ ~ResponseDue
    /\ Timing \/ timeSinceLastRequest < minRequestInterval
    /\ timeSinceLastRequest' = Min(minRequestInterval, timeSinceLastRequest + TickMs)
    /\ calls' = [c \in CallIds |-> later(calls[c])]
    /\ UNCHANGED <<cache, stored, cacheLoaded, gaveUp, saveFailed>>

CanStart(c) ==
    /\ cacheLoaded
    /\ calls[c].pc = "idle"
    /\ \A d \in CallIds : d < c => calls[d].pc /= "idle"

\* lookupWord(word), called on its own
LookupWord(c, word) ==
    /\ CanStart(c)
    /\ LET r == startLookup(word, timeSinceLastRequest)
           call == [NoCall EXCEPT !.kind = "word", !.pc = "running",
                                  !.words = <<word>>, !.tasks = <<r.task>>]
       IN  /\ calls' = [calls EXCEPT ![c] = settle(call)]
           /\ timeSinceLastRequest' = r.since
    /\ UNCHANGED <<cache, stored, cacheLoaded, gaveUp, saveFailed>>

\* lookupBatch(words) up to the first await: the pre-filter and the start
\* of the first group
LookupBatch(c, words) ==
    /\ CanStart(c)
    /\ IF Len(words) = 0
       THEN /\ calls' = [calls EXCEPT ![c] = [NoCall EXCEPT !.kind = "batch", !.pc = "done"]]
            /\ UNCHANGED timeSinceLastRequest
       ELSE LET toProcess == wordsToProcess(words, 1)
                r == startGroup(groupAt(toProcess, 0), timeSinceLastRequest, <<>>)
                call == [NoCall EXCEPT !.kind = "batch", !.pc = "running",
                                       !.words = words,
                                       !.results = prefilterResults(words),
                                       !.toProcess = toProcess, !.i = 0,
                                       !.tasks = r.tasks,
                                       !.afterGaveUp =
                                           {i \in 1..Len(words) : words[i] \in gaveUp}]
            IN  /\ ActiveTasks + Cardinality(Pending(call)) <= MaxActive
                /\ calls' = [calls EXCEPT ![c] = settle(call)]
                /\ timeSinceLastRequest' = r.since
    /\ UNCHANGED <<cache, stored, cacheLoaded, gaveUp, saveFailed>>

\* the pause between two groups is over: the next group is started
BatchDelayOver(c) ==
    /\ calls[c].pc = "batchDelay"
    /\ calls[c].timer = 0
    /\ LET i2 == calls[c].i + batchSize
           r == startGroup(groupAt(calls[c].toProcess, i2), timeSinceLastRequest, <<>>)
           call == [calls[c] EXCEPT !.pc = "running", !.i = i2, !.tasks = r.tasks]
       IN  /\ ActiveTasks + Cardinality(Pending(call)) <= MaxActive
           /\ calls' = [calls EXCEPT ![c] = settle(call)]
           /\ timeSinceLastRequest' = r.since
    /\ UNCHANGED <<cache, stored, cacheLoaded, gaveUp, saveFailed>>

\* the throttling delay of a lookup is over: lastRequestTime is stamped
\* and the request is sent
ThrottleOver(c, k) ==
    /\ k \in 1..Len(calls[c].tasks)
    /\ calls[c].tasks[k].pc = "throttle"
    /\ calls[c].tasks[k].timer = 0
    /\ LET r == sendRequest(calls[c].tasks[k], timeSinceLastRequest)
       IN  /\ calls' = [calls EXCEPT ![c].tasks[k] = r.task]
           /\ timeSinceLastRequest' = r.since
    /\ UNCHANGED <<cache, stored, cacheLoaded, gaveUp, saveFailed>>

\* saveCache: the storage backend takes the cache, or fails and keeps what
\* it had; the failure is logged and goes no further
saveCache_Never(entries, saved) == stored

saveCache(entries, saved) == IF saved THEN entries ELSE stored

finishLookup_Throws(c, k, result, exhausted, saved) ==
    LET task == calls[c].tasks[k]
        call == [calls[c] EXCEPT !.tasks[k] =
                    [task EXCEPT !.pc = "done", !.timer = 0, !.attempt = 0,
                                 !.failures = 0,
                                 !.sinceLast = minRequestInterval,
                                 !.result = IF exhausted THEN Undefined ELSE Some(result)]]
    IN  /\ cache' = IF exhausted THEN cache ELSE addToCache(cache, task.cleanWord, result)
        /\ stored' = IF exhausted THEN stored ELSE saveCache(cache', saved)
        /\ saveFailed' = IF exhausted THEN saveFailed ELSE ~saved
        /\ gaveUp' = IF exhausted THEN gaveUp \cup {task.cleanWord}
                     ELSE gaveUp \ {task.cleanWord}
        /\ calls' = [calls EXCEPT ![c] = settle(call)]

\* the end of a lookup that went to the remote dictionary: the result is
\* written to the cache, the cache is saved, the lookup returns
finishLookup(c, k, result, exhausted, saved) ==
    LET task == calls[c].tasks[k]
        call == [calls[c] EXCEPT !.tasks[k] =
                    [task EXCEPT !.pc = "done", !.timer = 0, !.attempt = 0,
                                 !.failures = 0,
                                 !.sinceLast = minRequestInterval, !.result = Some(result)]]
    IN  /\ cache' = addToCache(cache, task.cleanWord, result)
        /\ stored' = saveCache(cache', saved)
        /\ saveFailed' = ~saved
        /\ gaveUp' = IF exhausted THEN gaveUp \cup {task.cleanWord}
                     ELSE gaveUp \ {task.cleanWord}
        /\ calls' = [calls EXCEPT ![c] = settle(call)]

moreAttempts_OneMore(attempt) == attempt <= maxRetries

\* the loop makes another attempt after a request that threw: attempt < maxRetries
moreAttempts(attempt) == attempt < maxRetries

\* the request of a lookup is answered: an entry, no entry, or an error
\* (status 429 or another one)
Respond(c, k, response, saved) ==
    /\ k \in 1..Len(calls[c].tasks)
    /\ calls[c].tasks[k].pc = "request"
    /\ response \in {"found", "notFound", "error", "rateLimited"}
    /\ LET task == calls[c].tasks[k]
       IN  CASE response = "found" ->
                    finishLookup(c, k, foundResult(task.cleanWord), FALSE, saved)
             [] response = "notFound" ->
                    finishLookup(c, k, fallbackResult(task.cleanWord), FALSE, saved)
             [] response \in {"error", "rateLimited"} ->
                    IF moreAttempts(task.attempt)
                    THEN /\ calls' = [calls EXCEPT ![c].tasks[k] =
                                [task EXCEPT !.pc = "backoff",
                                             !.failures = @ + 1,
                                             !.sinceLast = minRequestInterval,
                                             !.timer =
                                                 IF response = "rateLimited"
                                                 THEN retryDelay * task.attempt
                                                 ELSE (retryDelay * task.attempt) \div 2]]
                         /\ saved
                         /\ UNCHANGED <<cache, stored, gaveUp, saveFailed>>
                    ELSE finishLookup(c, k, fallbackResult(task.cleanWord), TRUE, saved)
    /\ UNCHANGED <<timeSinceLastRequest, cacheLoaded>>

\* the delay before a retry is over: the next attempt begins
BackoffOver(c, k) ==
    /\ k \in 1..Len(calls[c].tasks)
    /\ calls[c].tasks[k].pc = "backoff"
    /\ calls[c].tasks[k].timer = 0
    /\ LET r == attemptRequest([calls[c].tasks[k] EXCEPT !.attempt = @ + 1],
                               timeSinceLastRequest)
       IN  /\ calls' = [calls EXCEPT ![c].tasks[k] = r.task]
           /\ timeSinceLastRequest' = r.since
    /\ UNCHANGED <<cache, stored, cacheLoaded, gaveUp, saveFailed>>

\* the caller has the result of its call
Return(c) ==
    /\ calls[c].pc = "done"
    /\ calls' = [calls EXCEPT ![c] = NoCall]
    /\ UNCHANGED <<timeSinceLastRequest, cache, stored, cacheLoaded, gaveUp, saveFailed>>

\* clearCache()
ClearCache(saved) ==
    /\ cacheLoaded
    /\ cache /= NoEntries \/ stored /= NoEntries
    /\ cache' = NoEntries
    /\ stored' = saveCache(cache', saved)
    /\ saveFailed' = ~saved
    /\ gaveUp' = {}
    /\ UNCHANGED <<timeSinceLastRequest, cacheLoaded, calls>>

(***************************************************************************)
(* Specifications                                                          *)
(***************************************************************************)
LyrIdle == production = FALSE /\ geniusClient = "off" /\ fetches = <<>>

DictIdle ==
    /\ timeSinceLastRequest = 0 /\ cache = <<>> /\ stored = <<>>
    /\ cacheLoaded = FALSE /\ calls = <<>> /\ gaveUp = {}
    /\ saveFailed = FALSE

InitMerge == MergeInit /\ SegIdle /\ LyrIdle /\ DictIdle /\ CleanIdle

NextMerge == Connect /\ UNCHANGED <<segVars, lyrVars, dictVars, cleanVars>>

SpecMerge == InitMerge /\ [][NextMerge]_vars

InitSeg == SegInit /\ MergeIdle /\ LyrIdle /\ DictIdle /\ CleanIdle

NextSeg ==
    \/ ProcessLyrics /\ UNCHANGED <<mergeVars, lyrVars, dictVars, cleanVars>>
    \/ SegmentLine /\ UNCHANGED <<mergeVars, lyrVars, dictVars, cleanVars>>
    \/ ProcessLine /\ UNCHANGED <<mergeVars, lyrVars, dictVars, cleanVars>>

SpecSeg == InitSeg /\ [][NextSeg]_vars

InitLyrics == LyrInit /\ MergeIdle /\ SegIdle /\ DictIdle /\ CleanIdle

NextLyrics ==
    \/ \E c \in FetchIds, title \in FetchTitles, artist \in FetchArtists :
          FetchLyrics(c, title, artist) /\ UNCHANGED <<mergeVars, segVars, dictVars, cleanVars>>
    \/ \E c \in FetchIds, loaded \in BOOLEAN :
          ImportDone(c, loaded) /\ UNCHANGED <<mergeVars, segVars, dictVars, cleanVars>>
    \/ \E c \in FetchIds, threw \in BOOLEAN, searches \in SeqsUpTo(SongPool, MaxHits) :
          SearchDone(c, threw, searches) /\ UNCHANGED <<mergeVars, segVars, dictVars, cleanVars>>
    \/ \E c \in FetchIds :
          TestSearchDone(c) /\ UNCHANGED <<mergeVars, segVars, dictVars, cleanVars>>
    \/ \E c \in FetchIds, how \in {"text", "empty", "notFoundError", "otherError"} :
          LyricsDone(c, how) /\ UNCHANGED <<mergeVars, segVars, dictVars, cleanVars>>
    \/ \E c \in FetchIds, extracted \in BOOLEAN :
          AlternativeDone(c, extracted) /\ UNCHANGED <<mergeVars, segVars, dictVars, cleanVars>>

SpecLyrics == InitLyrics /\ [][NextLyrics]_vars

Init == DictInit /\ MergeIdle /\ SegIdle /\ LyrIdle /\ CleanIdle

Next ==
    \/ \E readable \in BOOLEAN :
          LoadCache(readable) /\ UNCHANGED <<mergeVars, segVars, lyrVars, cleanVars>>
    \/ Tick /\ UNCHANGED <<mergeVars, segVars, lyrVars, cleanVars>>
    \/ \E c \in CallIds, word \in Words :
          LookupWord(c, word) /\ UNCHANGED <<mergeVars, segVars, lyrVars, cleanVars>>
    \/ \E c \in CallIds, words \in BatchInputs :
          LookupBatch(c, words) /\ UNCHANGED <<mergeVars, segVars, lyrVars, cleanVars>>
    \/ \E c \in CallIds :
          BatchDelayOver(c) /\ UNCHANGED <<mergeVars, segVars, lyrVars, cleanVars>>
    \/ \E c \in CallIds, k \in 1..(batchSize + 1) :
          ThrottleOver(c, k) /\ UNCHANGED <<mergeVars, segVars, lyrVars, cleanVars>>
    \/ \E c \in CallIds, k \in 1..(batchSize + 1),
          response \in {"found", "notFound", "error", "rateLimited"},
          saved \in BOOLEAN :
          Respond(c, k, response, saved) /\ UNCHANGED <<mergeVars, segVars, lyrVars, cleanVars>>
    \/ \E c \in CallIds, k \in 1..(batchSize + 1) :
          BackoffOver(c, k) /\ UNCHANGED <<mergeVars, segVars, lyrVars, cleanVars>>
    \/ \E c \in CallIds : Return(c) /\ UNCHANGED <<mergeVars, segVars, lyrVars, cleanVars>>
    \/ \E saved \in BOOLEAN :
          ClearCache(saved) /\ UNCHANGED <<mergeVars, segVars, lyrVars, cleanVars>>

Spec == Init /\ [][Next]_vars

\* The event loop runs what is ready: a timer that is over fires, and
\* every request to the remote dictionary is answered or fails (axios is
\* given a timeout).  So a step of a lookup that is under way is taken when
\* one is possible; calls are made, and the cache is cleared, as the
\* callers please.
Progress ==
    \/ Tick
    \/ \E c \in CallIds : BatchDelayOver(c)
    \/ \E c \in CallIds, k \in 1..(batchSize + 1) : ThrottleOver(c, k)
    \/ \E c \in CallIds, k \in 1..(batchSize + 1) : BackoffOver(c, k)
    \/ \E c \in CallIds, k \in 1..(batchSize + 1),
          response \in {"found", "notFound", "error", "rateLimited"},
          saved \in BOOLEAN : Respond(c, k, response, saved)

Fairness == WF_dictVars(Progress)

\* The service as lyrics processing uses it: a backend that holds nothing
\* at the start and takes every save, and callers that call lookupBatch.
InitFair == Init /\ stored = NoEntries

NextFair ==
    \/ LoadCache(TRUE) /\ UNCHANGED <<mergeVars, segVars, lyrVars, cleanVars>>
    \/ Tick /\ UNCHANGED <<mergeVars, segVars, lyrVars, cleanVars>>
    \/ \E c \in CallIds, words \in BatchInputs :
          LookupBatch(c, words) /\ UNCHANGED <<mergeVars, segVars, lyrVars, cleanVars>>
    \/ \E c \in CallIds :
          BatchDelayOver(c) /\ UNCHANGED <<mergeVars, segVars, lyrVars, cleanVars>>
    \/ \E c \in CallIds, k \in 1..(batchSize + 1) :
          ThrottleOver(c, k) /\ UNCHANGED <<mergeVars, segVars, lyrVars, cleanVars>>
    \/ \E c \in CallIds, k \in 1..(batchSize + 1),
          response \in {"found", "notFound", "error", "rateLimited"} :
          Respond(c, k, response, TRUE) /\ UNCHANGED <<mergeVars, segVars, lyrVars, cleanVars>>
    \/ \E c \in CallIds, k \in 1..(batchSize + 1) :
          BackoffOver(c, k) /\ UNCHANGED <<mergeVars, segVars, lyrVars, cleanVars>>
    \/ \E c \in CallIds : Return(c) /\ UNCHANGED <<mergeVars, segVars, lyrVars, cleanVars>>
    \/ ClearCache(TRUE) /\ UNCHANGED <<mergeVars, segVars, lyrVars, cleanVars>>

SpecFair == InitFair /\ [][NextFair]_vars /\ Fairness

InitClean == CleanInit /\ MergeIdle /\ SegIdle /\ LyrIdle /\ DictIdle

NextClean == CleanLyrics /\ UNCHANGED <<mergeVars, segVars, lyrVars, dictVars>>

SpecClean == InitClean /\ [][NextClean]_vars

(***************************************************************************)
(* Properties of the small-tsu merge                                       *)
(***************************************************************************)
\* The ways of cutting n input segments into consecutive blocks of 1 or 2.
Blockings(n) == {b \in SeqsUpTo({1, 2}, n) : SumSeq(b) = n}

BlockStart(b, k) == 1 + SumSeq(SubSeq(b, 1, k - 1))

AllowedContinuations == {verbEndings[k] : k \in 1..Len(verbEndings)}

MayMerge(first, second) ==
    /\ first.text /= <<>> /\ first.text[Len(first.text)] = SmallTsu
    /\ \E p \in AllowedContinuations : StartsWith(second.text, p)

\* b explains the output: a block of 1 is an input segment emitted unchanged,
\* a block of 2 is an allowed pair whose texts were concatenated.
Explains(b) ==
    /\ Len(b) = Len(connected)
    /\ \A k \in 1..Len(b) :
          LET s == BlockStart(b, k)
          IN  IF b[k] = 1 THEN connected[k] = segments[s]
              ELSE /\ MayMerge(segments[s], segments[s + 1])
                   /\ connected[k].text = segments[s].text \o segments[s + 1].text

\* C5: the merge never lengthens the list; an output segment joins two input
\* segments only if they are adjacent, the first ends with the small tsu and
\* the second starts with an allow-listed continuation; every other segment
\* is emitted unchanged, in order.  The pair (small tsu, inu) is not merged.
C5_MergeOnlyAllowed ==
    mpc = "done" =>
        /\ Len(connected) <= Len(segments)
        /\ \E b \in Blockings(Len(segments)) : Explains(b)
        /\ (Len(segments) = 2 /\ segments[1].text = <<12387>> /\ segments[2].text = <<29356>>)
               => connected = segments

C5_Witness ==
    /\ mpc = "done"
    /\ Len(segments) = 3
    /\ Len(connected) = 2
    /\ connected[1].text = <<12387>>
    /\ connected[2].text = <<24341, 12387, 12390>>

TextLines == SplitLines(Trim(lyrics))

IsBlank(line) == \A k \in 1..Len(line) : IsSpaceChar(line[k])

NoSpaces(text) == SelectSeq(text, LAMBDA c : ~IsSpaceChar(c))

SurfaceText(morphemes) == Flatten([k \in 1..Len(morphemes) |-> morphemes[k].surface])

SegmentText(segs) == Flatten([k \in 1..Len(segs) |-> segs[k].text])

AnalyzerFailed(kind) == kind \in {"throw", "none", "discarded"}

\* C8: a non-empty line with a Japanese character gets at least one
\* morpheme, and when the analyzer throws, returns nothing or returns only
\* discarded tokens the line is split into one morpheme per character,
\* tagged unknown, whose reading is the character; segmentation never ends
\* in an error.
C8_JapaneseLineNeverEmpty ==
    /\ spc \in {"segment", "process"} => outcome = "none"
    /\ \A i \in 1..Len(segmentedLines) :
          LET line == Trim(TextLines[i])
          IN  (line /= <<>> /\ \E k \in 1..Len(line) : IsJapaneseChar(line[k])) =>
                  /\ Len(segmentedLines[i]) >= 1
                  /\ AnalyzerFailed(analyzerLog[i]) =>
                        /\ Len(segmentedLines[i]) = Len(line)
                        /\ \A k \in 1..Len(line) :
                              segmentedLines[i][k]
                                  = [surface |-> <<line[k]>>, pos |-> "unknown",
                                     reading |-> <<line[k]>>]

C8_Witness ==
    /\ spc = "process"
    /\ Len(segmentedLines) = 1
    /\ analyzerLog[1] = "throw"
    /\ Len(segmentedLines[1]) = 3
    /\ segmentedLines[1][1].surface = <<29483>>

\* The tokens of a line without Japanese characters, up to the name of the
\* punctuation tag.
RomanizedTokens(punctTag) ==
    \A i \in 1..Len(segmentedLines) :
        LET line == Trim(TextLines[i])
            toks == segmentedLines[i]
        IN  (line /= <<>> /\ \A k \in 1..Len(line) : ~IsJapaneseChar(line[k])) =>
                /\ analyzerLog[i] = "notInvoked"
                /\ SurfaceText(toks) = CollapseSpaces(line)
                /\ \A k \in 1..Len(toks) :
                      LET t == toks[k].surface
                      IN  /\ t /= <<>>
                          /\ toks[k].reading = t
                          /\ IF IsSpaceChar(t[1])
                             THEN toks[k].pos = "whitespace" /\ IsBlank(t)
                             ELSE IF IsDelimChar(t[1])
                             THEN toks[k].pos = punctTag /\ Len(t) = 1
                             ELSE /\ toks[k].pos = "latin"
                                  /\ \A j \in 1..Len(t) :
                                        ~IsSpaceChar(t[j]) /\ ~IsDelimChar(t[j])
                /\ \A k \in 1..(Len(toks) - 1) :
                      /\ ~(toks[k].pos = "latin" /\ toks[k + 1].pos = "latin")
                      /\ ~(toks[k].pos = "whitespace" /\ toks[k + 1].pos = "whitespace")

\* C9 as stated: a line without Japanese characters is not sent to the
\* analyzer and is cut into whitespace runs tagged whitespace, single
\* punctuation characters tagged punctuation and maximal other runs tagged
\* latin; no token is empty.
C9_TaggedPunctuation == RomanizedTokens("punctuation")

\* C9 amended: the same, with punctuation tokens tagged punct.
C9_TaggedPunct == RomanizedTokens("punct")

C9_Witness ==
    /\ spc = "process"
    /\ lyrics = <<97, 44, 32, 97>>
    /\ Len(segmentedLines[1]) = 4
    /\ segmentedLines[1][2].pos = "punct"
    /\ segmentedLines[1][3].pos = "whitespace"

(***************************************************************************)
(* Properties of fetchLyrics                                               *)
(***************************************************************************)
\* No action of SpecLyrics lets time pass, so every call of a behaviour
\* starts within any time-to-live of the calls before it.

\* C1: a call that starts after a call with the same normalized query has
\* returned lyrics issues no remote request (no search, no page fetch).
C1_SecondFetchIsCached ==
    \A c1 \in FetchIds, c2 \in FetchIds :
        (/\ c1 \in fetches[c2].after
         /\ fetches[c2].pc /= "idle"
         /\ Trim(fetches[c2].title) /= <<>>
         /\ searchQuery(fetches[c1].title, fetches[c1].artist)
                = searchQuery(fetches[c2].title, fetches[c2].artist))
        => fetches[c2].searches = 0 /\ fetches[c2].pageFetches = 0

(***************************************************************************)
(* Properties of the dictionary lookups                                    *)
(***************************************************************************)
HasJapanese(word) == \E k \in 1..Len(word) : IsJapaneseChar(word[k])

Lookups == {ck \in CallIds \X (1..(batchSize + 1)) : ck[2] <= Len(calls[ck[1]].tasks)}

Lookup(ck) == calls[ck[1]].tasks[ck[2]]

\* C2: a word without a Japanese character is never looked up remotely:
\* its lookup is over at once, without a request and with the result null,
\* lookupBatch keeps null at its position and starts no lookup for it, and
\* the cache gets no entry for it.
C2_NonJapaneseNeverRequested ==
    /\ \A ck \in Lookups :
          ~HasJapanese(Lookup(ck).word) =>
              /\ Lookup(ck).pc = "done"
              /\ Lookup(ck).requests = 0
              /\ Lookup(ck).result = Undefined
    /\ \A c \in CallIds :
          /\ \A i \in 1..Len(calls[c].results) :
                ~HasJapanese(calls[c].words[i]) => calls[c].results[i] = Undefined
          /\ \A k \in 1..Len(calls[c].toProcess) :
                HasJapanese(calls[c].toProcess[k].word)
          /\ calls[c].kind = "word" /\ ~HasJapanese(calls[c].words[1]) =>
                calls[c].pc = "done" /\ calls[c].results = <<Undefined>>
    /\ \A key \in DOMAIN cache : HasJapanese(key)

\* a lookupWord call of a non-Japanese word has returned, and a lookupBatch
\* call with a non-Japanese word has returned an entry for another word
C2_Witness ==
    \/ \E c \in CallIds :
          /\ calls[c].kind = "word" /\ calls[c].pc = "done"
          /\ ~HasJapanese(calls[c].words[1])
          /\ cache /= NoEntries
    \/ \E c \in CallIds :
          /\ calls[c].kind = "batch" /\ calls[c].pc = "done"
          /\ \E i, j \in 1..Len(calls[c].words) :
                /\ ~HasJapanese(calls[c].words[i])
                /\ calls[c].results[j] /= Undefined
                /\ \E k \in 1..Len(calls[c].tasks) : calls[c].tasks[k].requests > 0

\* C3: lookupBatch returns as many results as it was given words, and the
\* result at a position is null when the word at that position is not
\* Japanese and the entry of that word when it is, whether the word was
\* cached, found, not found or failed.
C3_ResultsInInputOrder ==
    \A c \in CallIds :
        calls[c].kind = "batch" =>
            /\ Len(calls[c].results) = Len(calls[c].words)
            /\ calls[c].pc = "done" =>
                  \A i \in 1..Len(calls[c].words) :
                      IF HasJapanese(calls[c].words[i])
                      THEN /\ calls[c].results[i] /= Undefined
                           /\ calls[c].results[i][1].word = Trim(calls[c].words[i])
                      ELSE calls[c].results[i] = Undefined

\* a batch has returned whose first word was a cache hit and whose second
\* word, another one, failed on every attempt
C3_Witness ==
    \E c \in CallIds :
        /\ calls[c].kind = "batch" /\ calls[c].pc = "done"
        /\ Len(calls[c].words) = 2
        /\ Len(calls[c].toProcess) = 1
        /\ calls[c].toProcess[1].index = 2
        /\ calls[c].tasks[1].requests = maxRetries
        /\ calls[c].results[1] /= Undefined
        /\ calls[c].results[2] /= Undefined
        /\ calls[c].results[1][1].word /= calls[c].results[2][1].word

IsFallbackEntry(entry, word) ==
    entry.word = word /\ entry.definitions = <<NoDefinitionAvailable>>

\* C4: once a lookup has failed on all 3 attempts, the cache holds the
\* fallback entry of its word, and a lookup of that word that starts while
\* the cache holds that entry sends no request and returns it.
C4_GivenUpWordIsCached ==
    /\ \A word \in gaveUp :
          word \in DOMAIN cache /\ IsFallbackEntry(cache[word], word)
    /\ \A ck \in Lookups :
          Lookup(ck).onGaveUp =>
              /\ Lookup(ck).pc = "done"
              /\ Lookup(ck).requests = 0
              /\ Lookup(ck).result /= Undefined
              /\ IsFallbackEntry(Lookup(ck).result[1], Lookup(ck).cleanWord)
    /\ \A c \in CallIds : \A i \in calls[c].afterGaveUp :
          /\ \A k \in 1..Len(calls[c].toProcess) : calls[c].toProcess[k].index /= i
          /\ calls[c].results[i] /= Undefined
          /\ IsFallbackEntry(calls[c].results[i][1], calls[c].words[i])

\* a lookup has returned that started after another lookup of its word had
\* given up
C4_Witness ==
    \E ck \in Lookups :
        /\ Lookup(ck).onGaveUp
        /\ calls[ck[1]].pc = "done"
        /\ Lookup(ck).cleanWord \in gaveUp

C11_AtMostThreeAttempts ==
    \A ck \in Lookups :
        /\ Lookup(ck).requests <= maxRetries
        /\ Lookup(ck).pc = "request" =>
              /\ Lookup(ck).failures = Lookup(ck).requests - 1
              /\ Lookup(ck).attempt = Lookup(ck).requests
        /\ Lookup(ck).pc \in {"throttle", "backoff"} =>
              /\ Lookup(ck).failures = Lookup(ck).requests
              /\ Lookup(ck).failures < maxRetries

\* a lookup is over that has sent maxRetries requests and given up
C11_Witness ==
    \E ck \in Lookups :
        /\ Lookup(ck).pc = "done"
        /\ Lookup(ck).requests = maxRetries
        /\ Lookup(ck).cleanWord \in gaveUp

(***************************************************************************)
(* Properties of fetchLyrics                                               *)
(***************************************************************************)
\* C12: a call whose primary lyrics accessor failed with a network error
\* gives up on it only after 3 attempts.
C12_PrimaryFetchRetried ==
    \A c \in FetchIds :
        fetches[c].pc = "done" /\ fetches[c].primary = "otherError" =>
            fetches[c].primaryAttempts = 3

\* C13: a call whose primary lyrics accessor failed, whatever the failure,
\* ends with LYRICS_NOT_FOUND only after the page of the song was scraped.
C13_FallbackBeforeNotFound ==
    \A c \in FetchIds :
        (/\ fetches[c].pc = "done"
         /\ fetches[c].code = "LYRICS_NOT_FOUND"
         /\ fetches[c].primary \in {"notFoundError", "otherError"})
        => fetches[c].scraped

BlankTitle(title) == \A k \in 1..Len(title) : IsSpaceChar(title[k])

\* C14: a call ends with INVALID_INPUT exactly when its title is blank, and
\* then it has asked for no client, no search and no page; every other call
\* that ends returns lyrics or ends with LYRICS_NOT_FOUND.
C14_OnlyInvalidInputOrNotFound ==
    \A c \in FetchIds :
        /\ fetches[c].pc /= "idle" /\ BlankTitle(fetches[c].title) =>
              /\ fetches[c].pc = "done" /\ fetches[c].code = "INVALID_INPUT"
              /\ fetches[c].client = "null"
              /\ fetches[c].searches = 0 /\ fetches[c].pageFetches = 0
        /\ fetches[c].pc = "done" /\ ~BlankTitle(fetches[c].title) =>
              \/ fetches[c].code = "" /\ fetches[c].result /= Undefined
              \/ fetches[c].code = "LYRICS_NOT_FOUND" /\ fetches[c].result = Undefined

\* a call with a blank title has ended, and a call has ended whose accessor
\* failed and whose scraping found nothing
C14_Witness ==
    /\ \E c \in FetchIds : fetches[c].pc = "done" /\ fetches[c].code = "INVALID_INPUT"
    /\ \E c \in FetchIds :
          /\ fetches[c].pc = "done" /\ fetches[c].code = "LYRICS_NOT_FOUND"
          /\ fetches[c].scraped /\ fetches[c].primary = "notFoundError"

Unusable(song) ==
    \E word \in {WordRomanized, WordTranslation} :
        Includes(ToLower(song.title), word) \/ Includes(ToLower(song.artist), word)

\* C15: the song whose lyrics are fetched is the first search result with
\* neither word in its title or artist, and when every result has one of
\* them the call ends with LYRICS_NOT_FOUND and no lyrics were fetched.
C15_FirstUsableResult ==
    \A c \in FetchIds :
        /\ fetches[c].song /= Undefined =>
              \E i \in 1..Len(fetches[c].hits) :
                  /\ fetches[c].hits[i] = fetches[c].song[1]
                  /\ ~Unusable(fetches[c].hits[i])
                  /\ \A j \in 1..(i - 1) : Unusable(fetches[c].hits[j])
        /\ fetches[c].result /= Undefined =>
              fetches[c].song /= Undefined /\ fetches[c].result[1].lyricsOf = fetches[c].song[1]
        /\ (fetches[c].hits /= <<>> /\ \A i \in 1..Len(fetches[c].hits) : Unusable(fetches[c].hits[i])) =>
              /\ fetches[c].pc = "done" /\ fetches[c].code = "LYRICS_NOT_FOUND"
              /\ fetches[c].song = Undefined /\ fetches[c].pageFetches = 0

\* lyrics were returned of the second result, the first being a romanized
\* one, and a call whose only result is a translation has ended
C15_Witness ==
    /\ \E c \in FetchIds :
          /\ fetches[c].result /= Undefined
          /\ Len(fetches[c].hits) = 2
          /\ Unusable(fetches[c].hits[1])
          /\ fetches[c].result[1].lyricsOf = fetches[c].hits[2]
    /\ \E c \in FetchIds :
          /\ fetches[c].pc = "done" /\ Len(fetches[c].hits) = 1
          /\ Includes(ToLower(fetches[c].hits[1].artist), WordTranslation)

(***************************************************************************)
(* Properties of the dictionary cache                                      *)
(***************************************************************************)
\* the positions of a lookupBatch call that the pre-filter answered
Prefiltered(c) ==
    {i \in 1..Len(calls[c].results) :
        /\ calls[c].kind = "batch"
        /\ calls[c].results[i] /= Undefined
        /\ \A k \in 1..Len(calls[c].toProcess) : calls[c].toProcess[k].index /= i}

\* C16: a read of the cache returns no entry whose time-to-live is over:
\* when a lookup was answered from the cache, the cache does not hold an
\* expired entry of its word afterwards (the entry was fresh, or it was
\* evicted and looked up again).
C16_ExpiredEntryIsAbsent ==
    /\ \A ck \in Lookups :
          (/\ Lookup(ck).pc = "done"
           /\ Lookup(ck).requests = 0
           /\ Lookup(ck).result /= Undefined)
          => ~(/\ Lookup(ck).cleanWord \in DOMAIN cache
               /\ cache[Lookup(ck).cleanWord].expired)
    /\ \A c \in CallIds : \A i \in Prefiltered(c) :
          ~(calls[c].words[i] \in DOMAIN cache /\ cache[calls[c].words[i]].expired)

(***************************************************************************)
(* Properties of the groups of lookupBatch                                 *)
(***************************************************************************)
Batches == {c \in CallIds : calls[c].kind = "batch" /\ calls[c].toProcess /= <<>>}

\* the words of wordsToProcess that the group starting at offset i covers
GroupSize(c) ==
    IF Len(calls[c].toProcess) - calls[c].i < batchSize
    THEN Len(calls[c].toProcess) - calls[c].i
    ELSE batchSize

GroupSettled(call) == \A k \in 1..Len(call.tasks) : call.tasks[k].pc = "done"

\* C17: within one lookupBatch call the cache misses are resolved in
\* consecutive groups of at most batchSize (8) words: the lookups in flight
\* are those of one group, word for word the next slice of the misses; the
\* call pauses only when every lookup of the group is over and a further
\* group remains, it returns only when every lookup of the last group is
\* over, and a group is started only out of the pause that follows the
\* group before it, batchSize words further on.
C17_GroupsOfEight ==
    /\ [](\A c \in Batches :
            /\ Len(calls[c].tasks) <= batchSize
            /\ Len(calls[c].tasks) = GroupSize(c)
            /\ \A k \in 1..Len(calls[c].tasks) :
                  calls[c].tasks[k].word = calls[c].toProcess[calls[c].i + k].word
            /\ calls[c].pc = "batchDelay" =>
                  /\ GroupSettled(calls[c])
                  /\ calls[c].i + batchSize < Len(calls[c].toProcess)
            /\ calls[c].pc = "done" =>
                  /\ GroupSettled(calls[c])
                  /\ calls[c].i + batchSize >= Len(calls[c].toProcess))
    /\ [][\A c \in Batches :
            (calls'[c].kind = "batch" /\ calls'[c].i /= calls[c].i) =>
                /\ calls[c].pc = "batchDelay"
                /\ calls[c].timer = 0
                /\ GroupSettled(calls[c])
                /\ calls'[c].i = calls[c].i + batchSize
                /\ calls'[c].toProcess = calls[c].toProcess]_vars

\* a call that returned after its second group, the one word left over by
\* a first group of batchSize words in which a remote lookup found a word
C17_Witness ==
    \E c \in Batches :
        /\ calls[c].pc = "done"
        /\ Len(calls[c].toProcess) = batchSize + 1
        /\ calls[c].i = batchSize
        /\ Len(calls[c].tasks) = 1
        /\ calls[c].toProcess[1].word = <<29356>>
        /\ calls[c].results[1] = Some(foundResult(<<29356>>))

(***************************************************************************)
(* Properties of the lookup of a cached word                               *)
(***************************************************************************)
IsCached(word) == HasJapanese(Trim(word)) /\ Trim(word) \in DOMAIN cache

\* what a read of the cache hands out of the entry of a word
CachedResult(cleanWord) ==
    Some([word |-> cache[cleanWord].word,
          definitions |-> cache[cleanWord].definitions,
          partOfSpeech |-> cache[cleanWord].partOfSpeech,
          readings |-> cache[cleanWord].readings])

\* a step in which call c starts lookups: the call itself, or the next group
StartsLookups(c) ==
    \/ calls[c].pc = "idle" /\ calls'[c].pc /= "idle"
    \/ calls[c].pc = "batchDelay" /\ calls'[c].pc /= "batchDelay"

\* C18: the lookup of a cached word has no side effect.  In the step that
\* starts it, it is over with the entry of the cache as its result and
\* without a request; the cache and the persisted snapshot are unchanged;
\* lastRequestTime is unchanged when the step starts no lookup of a word
\* that is not cached; and lookupBatch has put the entry at the position of
\* every word that the cache holds as it is written.
C18_CachedLookupHasNoSideEffect ==
    [][\A c \in CallIds :
          StartsLookups(c) =>
              /\ \A k \in 1..Len(calls'[c].tasks) :
                    IsCached(calls'[c].tasks[k].word) =>
                        /\ calls'[c].tasks[k].pc = "done"
                        /\ calls'[c].tasks[k].requests = 0
                        /\ calls'[c].tasks[k].result
                              = CachedResult(Trim(calls'[c].tasks[k].word))
              /\ (calls'[c].kind = "word" /\ IsCached(calls'[c].words[1])) =>
                    /\ calls'[c].pc = "done"
                    /\ calls'[c].results = <<CachedResult(Trim(calls'[c].words[1]))>>
              /\ (calls'[c].kind = "batch" /\ calls[c].pc = "idle") =>
                    \A i \in 1..Len(calls'[c].words) :
                        (/\ HasJapanese(calls'[c].words[i])
                         /\ calls'[c].words[i] \in DOMAIN cache) =>
                            /\ calls'[c].results[i] = CachedResult(calls'[c].words[i])
                            /\ \A k \in 1..Len(calls'[c].toProcess) :
                                  calls'[c].toProcess[k].index /= i
              /\ (\E k \in 1..Len(calls'[c].tasks) : IsCached(calls'[c].tasks[k].word)) =>
                    /\ cache' = cache
                    /\ stored' = stored
              /\ (/\ calls'[c].tasks /= <<>>
                  /\ \A k \in 1..Len(calls'[c].tasks) :
                        IsCached(calls'[c].tasks[k].word)) =>
                    timeSinceLastRequest' = timeSinceLastRequest]_vars

\* lookupWord of a cached word has returned its entry, at a time when the
\* last request lies less than minRequestInterval back
C18_Witness ==
    \E c \in CallIds :
        /\ calls[c].kind = "word"
        /\ calls[c].pc = "done"
        /\ IsCached(calls[c].words[1])
        /\ calls[c].tasks[1].requests = 0
        /\ calls[c].results = <<CachedResult(Trim(calls[c].words[1]))>>
        /\ timeSinceLastRequest > 0
        /\ timeSinceLastRequest < minRequestInterval

(***************************************************************************)
(* Properties of the segments of processLyrics                             *)
(***************************************************************************)
\* a Katakana letter that has a Hiragana counterpart 0x60 below it
IsKatakanaLetter(ch) == ch >= 12449 /\ ch <= 12534

\* C19: every segment that processLyrics returns has a reading without
\* Katakana letters: a Katakana reading of the analyzer was converted to
\* Hiragana.
C19_ReadingsAreHiragana ==
    outcome = "ok" =>
        \A l \in 1..Len(processedLines) : \A j \in 1..Len(processedLines[l]) :
            \A k \in 1..Len(processedLines[l][j].reading) :
                ~IsKatakanaLetter(processedLines[l][j].reading[k])

\* C20: an exception while the segment of one morpheme is built never ends
\* processLyrics: the call does not fail with PROCESSING_FAILED, whatever
\* the dictionary returned for the morphemes of a line (an entry without a
\* definitions list included).
C20_MorphemeFailureIsContained ==
    outcome /= "PROCESSING_FAILED"

(***************************************************************************)
(* Properties of the persisted snapshot                                    *)
(***************************************************************************)
\* the snapshot of the storage backend holds every entry of the cache
SnapshotHoldsCache ==
    \A word \in DOMAIN cache : word \in DOMAIN stored /\ stored[word] = cache[word]

RECURSIVE LeftToRightBlocks(_, _)
LeftToRightBlocks(segs, i) ==
    IF i > Len(segs) THEN <<>>
    ELSE IF i + 1 <= Len(segs) /\ MayMerge(segs[i], segs[i + 1])
         THEN <<2>> \o LeftToRightBlocks(segs, i + 2)
         ELSE <<1>> \o LeftToRightBlocks(segs, i + 1)

\* C22: the merge is one pass from left to right without backtracking:
\* every input segment belongs to exactly one output segment, every output
\* segment is one input segment or the join of two, the pairs are those a
\* pass from the left meets, and a merged segment is never merged again
\* with its follower, even when its text ends with the small tsu and the
\* follower starts with an allow-listed continuation.
C22_SinglePass ==
    mpc = "done" =>
        LET b == LeftToRightBlocks(segments, 1)
        IN  /\ SumSeq(b) = Len(segments)
            /\ Len(connected) = Len(b)
            /\ \A k \in 1..Len(b) :
                  LET first == BlockStart(b, k)
                  IN  IF b[k] = 1 THEN connected[k] = segments[first]
                      ELSE /\ connected[k].text
                                = segments[first].text \o segments[first + 1].text
                           /\ connected[k].reading
                                = segments[first].reading \o segments[first + 1].reading

\* a merged segment whose text ends with the small tsu is followed by a
\* segment that starts with an allow-listed continuation
C22_Witness ==
    /\ mpc = "done"
    /\ Len(segments) = 3
    /\ Len(connected) = 2
    /\ connected[1].text = segments[1].text \o segments[2].text
    /\ connected[2] = segments[3]
    /\ MayMerge(connected[1], connected[2])

(***************************************************************************)
(* The content of a line under the small-tsu merge                         *)
(***************************************************************************)
SegmentReading(segs) == Flatten([k \in 1..Len(segs) |-> segs[k].reading])

ContentPreserved ==
    /\ SegmentText(connected) = SegmentText(segments)
    /\ SegmentReading(connected) = SegmentReading(segments)
    /\ Len(segments) < 2 => connected = segments

EndsWithSmallTsu(segment) ==
    segment.text /= <<>> /\ segment.text[Len(segment.text)] = SmallTsu

RawErrorText == TypeErrorMessage

\* C23: the message of an error of processLyrics, and of the HTTP error
\* body built from it, is a fixed text: it never holds the text of the
\* provider or runtime error that caused the failure.
C23_NoRawErrorText ==
    (spc = "done" /\ outcome /= "ok") =>
        /\ ~Includes(errorMessage, RawErrorText)
        /\ ~Includes(errorHandler(outcome, errorMessage).error.message, RawErrorText)

(***************************************************************************)
(* Properties of cleanLyrics                                               *)
(***************************************************************************)
CleanedLines == SplitLines(cleaned)

\* the positions of the lines of a text that are not blank, in order
NonBlankLines(text) ==
    LET ls == SplitLines(text)
    IN  SelectSeq([k \in 1..Len(ls) |-> k], LAMBDA k : ~IsBlank(ls[k]))

\* whether blank lines lie between the k-th line that is not blank and the next
Parted(text, k) == NonBlankLines(text)[k + 1] > NonBlankLines(text)[k] + 1

\* a text that none of the patterns of cleanLyrics touches
PlainText(text) == \A k \in 1..Len(text) : text[k] \in {97, 32, 9, 10, 12288}

C26_WrittenEntryStaysHit ==
    [][/\ \/ DOMAIN cache \subseteq DOMAIN cache'
          \/ cacheLoaded /\ cache' = NoEntries
       /\ cacheLoaded' /= cacheLoaded =>
             /\ cache = NoEntries
             /\ \A c \in CallIds : calls[c].pc = "idle"
       /\ \A c \in CallIds :
             StartsLookups(c) =>
                 \A k \in 1..Len(calls'[c].tasks) :
                     LET word == Trim(calls'[c].tasks[k].word)
                     IN  (HasJapanese(word) /\ word \in DOMAIN cache) =>
                             /\ calls'[c].tasks[k].pc = "done"
                             /\ calls'[c].tasks[k].requests = 0
                             /\ calls'[c].tasks[k].result /= Undefined]_vars

\* the cache holds the entry that was loaded and an entry that a lookup
\* wrote, and a later lookup of the written word was a cache hit
C26_Witness ==
    /\ cacheLoaded
    /\ <<29356>> \in DOMAIN cache
    /\ <<29483>> \in DOMAIN cache
    /\ \E ck \in Lookups :
          /\ Lookup(ck).cleanWord = <<29483>>
          /\ Lookup(ck).pc = "done"
          /\ Lookup(ck).requests = 0
          /\ Lookup(ck).result /= Undefined

(***************************************************************************)
(* Properties of concurrent lookups of one word                            *)
(***************************************************************************)
\* C27: the lookups of one word that run concurrently issue one sequence of
\* remote requests together: of the lookups of a group that are for the
\* same word at most one sends requests, and they send at most maxRetries
\* requests in total.
C27_OneRequestSequencePerWord ==
    \A c \in CallIds :
        \A k1, k2 \in 1..Len(calls[c].tasks) :
            (k1 /= k2 /\ calls[c].tasks[k1].cleanWord = calls[c].tasks[k2].cleanWord) =>
                /\ ~(calls[c].tasks[k1].requests > 0 /\ calls[c].tasks[k2].requests > 0)
                /\ calls[c].tasks[k1].requests + calls[c].tasks[k2].requests <= maxRetries

(***************************************************************************)
(* Properties of the lyrics-provider client                                *)
(***************************************************************************)
\* C28: the client of the lyrics provider is constructed at most once per
\* process: at most one fetchLyrics call has constructed a client object,
\* so that all calls use the same one.
C28_ClientBuiltOnce ==
    Cardinality({c \in FetchIds : fetches[c].built}) <= 1

(***************************************************************************)
(* Properties of the search requests of fetchLyrics                        *)
(***************************************************************************)
\* C30: one fetchLyrics call sends at most one search request to the
\* lyrics-search provider, whatever the search returns.
C30_AtMostOneSearch ==
    \A c \in FetchIds : fetches[c].searches <= 1

(***************************************************************************)
(* Termination of lookupBatch                                              *)
(***************************************************************************)
\* every word of the call that holds a Japanese character has its result
Resolved(call) ==
    /\ Len(call.results) = Len(call.words)
    /\ \A i \in 1..Len(call.words) :
          isJapaneseWord(call.words[i]) => call.results[i] /= Undefined

WithinRetryBound ==
    \A c \in CallIds : \A k \in 1..Len(calls[c].tasks) :
        /\ calls[c].tasks[k].requests <= maxRetries
        /\ calls[c].tasks[k].failures <= maxRetries - 1

\* C29: when the timers fire and every request is answered or fails, a
\* lookupBatch call that has started returns in the end with a result at
\* every position that holds a Japanese word, whatever the answers were;
\* no lookup sends more than 3 requests or sleeps more than twice between
\* them.
C29_BatchCompletes ==
    /\ \A c \in CallIds :
          (calls[c].kind = "batch" /\ calls[c].pc /= "idle")
              ~> (calls[c].kind = "batch" /\ calls[c].pc = "done" /\ Resolved(calls[c]))
    /\ []WithinRetryBound

\* a call of more words than one group holds has returned, resolved, after
\* a lookup of its first group gave up on its third failed request
C29_Witness ==
    \E c \in CallIds :
        /\ calls[c].kind = "batch" /\ calls[c].pc = "done"
        /\ Len(calls[c].words) > batchSize
        /\ Resolved(calls[c])
        /\ calls[c].words[1] \in gaveUp

====
